---------------------------- MODULE FileSystemProofs --------------------------
(***************************************************************************)
(* The inode cache of fs.c and the file table of file.c, for any number of *)
(* slots, files, inodes and blocks, any disk that mkfs makes and any path: *)
(* types, one slot for an inode in use, no slot recycled while the client  *)
(* or an open file points to it, and no inode freed while a directory      *)
(* names it or somebody has it.                                            *)
(*                                                                         *)
(* Nothing here depends on blocks being in one place only, and so it holds *)
(* for lookups in directories that were never read, which go wherever      *)
(* stale addresses lead.                                                   *)
(***************************************************************************)
EXTENDS FileSystem, IntervalInduction, FiniteSetTheorems

USE DEF NULL

-----------------------------------------------------------------------------
(***************************************************************************)
(* Types, stronger than FSTypeOK where later steps need it.                *)
(***************************************************************************)
MaxSize == MAXFILE * BSIZE
InBlock == 0 .. BSIZE - 1
Addrs   == [0 .. NDIRECT -> Blocks]

\* An entry with a name is for an inode, or empty; every number is a block's,
\* should stale addresses lead to a block that is no table.
Stored ==
  {c \in [num : Blocks, name : Name \cup {"", "data"}] : c.name \in Name => c.num \in Inodes \cup {0}}

Types == {"free", "dir", "file", "dev"}

DNode == [type : Types, nlink : Nat, size : 0 .. MaxSize, addrs : Addrs]

CNode == [inum : 0 .. NINODES - 1, ref : Nat, flags : SUBSET {"BUSY", "VALID"},
          type : Types, nlink : Nat, size : 0 .. MaxSize, addrs : Addrs]

OFile == [ref : Nat, type : {"none", "inode"}, ip : Slots \cup {NULL}, off : 0 .. MaxSize,
          writable : BOOLEAN]

DiskOK(d) ==
  /\ d.used \subseteq Blocks
  /\ d.dinode \in [Inodes -> DNode]
  /\ d.data \in [Blocks -> [InBlock -> Stored]]

Typed(s) ==
  /\ DOMAIN s = {"used", "dinode", "data", "icache", "ftable", "stuck"}
  /\ DiskOK(s)
  /\ s.icache \in [Slots -> CNode]
  /\ \A ip \in Slots : s.icache[ip].ref > 0 => s.icache[ip].inum \in Inodes
  /\ s.ftable \in [Files -> OFile]
  /\ s.stuck \in BOOLEAN

\* What a slot is used for, and what else is known of it.
SameUse(e, g) == g.ref = e.ref /\ g.inum = e.inum /\ g.flags = e.flags

SameNode(e, g) == SameUse(e, g) /\ g.type = e.type /\ g.nlink = e.nlink /\ g.size = e.size

\* A step that leaves the files and the slots' use alone, and one that leaves all
\* of a slot but the addresses alone.
Keeps(s, t) ==
  /\ Typed(t) /\ t.ftable = s.ftable
  /\ \A ip \in Slots : SameUse(s.icache[ip], t.icache[ip])

Leaves(s, t) ==
  /\ Typed(t) /\ t.ftable = s.ftable
  /\ \A ip \in Slots : SameNode(s.icache[ip], t.icache[ip])

LEMMA KeepsAll == ASSUME NEW s, Typed(s) PROVE Keeps(s, s) /\ Leaves(s, s)
  BY DEF Keeps, SameUse, Leaves, SameNode

LEMMA KeepsMore ==
  ASSUME NEW s, NEW t, NEW u, Keeps(s, t), Keeps(t, u)
  PROVE  Keeps(s, u)
  BY DEF Keeps, SameUse

LEMMA LeavesMore ==
  ASSUME NEW s, NEW t, NEW u, Leaves(s, t), Leaves(t, u)
  PROVE  Leaves(s, u)
  BY DEF Leaves, SameNode, SameUse

LEMMA LeavesKeeps == ASSUME NEW s, NEW t, Leaves(s, t) PROVE Keeps(s, t)
  BY DEF Leaves, Keeps, SameNode

-----------------------------------------------------------------------------
LEMMA MinIs == ASSUME NEW S, S \subseteq Nat, S # {} PROVE Min(S) \in S
<1> DEFINE Less == {r \in Nat \X Nat : r[1] < r[2]}
<1>1. PICK n \in S : \A m \in S : <<m, n>> \notin Less
  <2>1. IsWellFoundedOn(Less, Nat)
    BY LessIsWellFounded
  <2> HIDE DEF Less
  <2>2. QED  BY <2>1, WFMin
<1>2. ASSUME NEW m \in S PROVE n <= m
  <2>1. <<m, n>> \in Nat \X Nat /\ ~(m < n)
    BY <1>1
  <2>2. QED  BY <2>1
<1>3. QED  BY <1>2 DEF Min

\* The sizes there are.
LEMMA Sizes ==
  /\ Slots \subseteq Nat \ {0} /\ Files \subseteq Nat \ {0}
  /\ Blocks \subseteq Nat /\ 0 \in Blocks /\ Inodes \subseteq Blocks
  /\ Inodes \subseteq 0 .. NINODES - 1 /\ 0 \in 0 .. NINODES - 1 /\ ROOTINO \in Inodes
  /\ BSIZE \in Nat \ {0} /\ NDIRECT \in Nat \ {0} /\ NINDIRECT = BSIZE
  /\ MAXFILE \in Nat /\ MaxSize \in Nat /\ UINT \in Nat /\ MaxSize < UINT
<1>1. /\ BSIZE \in Nat \ {0} /\ NDIRECT \in Nat \ {0} /\ NINODES \in Nat \ {0} /\ FSSIZE \in Nat \ {0}
      /\ NINODES > 1 /\ NINODES <= FSSIZE
  BY DiskAssumption, FileSystemAssumption
<1>2. MAXFILE \in Nat
  BY <1>1 DEF MAXFILE, NINDIRECT
<1>3. MaxSize \in Nat
  BY <1>1, <1>2 DEF MaxSize
<1>4. NINODE \in Nat /\ NFILE \in Nat /\ UINT \in Nat /\ MaxSize < UINT
  BY <1>3, FileSystemAssumption DEF MaxSize
<1>5. Slots \subseteq Nat \ {0} /\ Files \subseteq Nat \ {0}
  BY <1>4 DEF Slots, Files
<1>6. /\ Blocks \subseteq Nat /\ 0 \in Blocks /\ Inodes \subseteq Blocks
      /\ Inodes \subseteq 0 .. NINODES - 1 /\ 0 \in 0 .. NINODES - 1 /\ ROOTINO \in Inodes
  BY <1>1 DEF Blocks, Inodes, ROOTINO
<1>7. QED  BY <1>1, <1>2, <1>3, <1>4, <1>5, <1>6 DEF NINDIRECT

\* The block an offset is in, and the place in the block.
LEMMA OffsetIn ==
  ASSUME NEW o \in Nat, o < MaxSize
  PROVE  o \div BSIZE \in 0 .. MAXFILE - 1
<1> DEFINE q == o \div BSIZE
<1>1. q \in Nat /\ o % BSIZE \in Nat /\ o = (BSIZE * q) + (o % BSIZE)
  BY Sizes
<1>2. ASSUME q >= MAXFILE PROVE FALSE
  <2>1. PICK d \in Nat : q = MAXFILE + d
    <3>1. q - MAXFILE \in Nat /\ q = MAXFILE + (q - MAXFILE)
      BY <1>1, <1>2, Sizes
    <3>2. QED  BY <3>1
  <2>2. BSIZE * q = MaxSize + BSIZE * d /\ BSIZE * d \in Nat
    BY <2>1, Sizes DEF MaxSize
  <2>3. QED  BY <1>1, <2>2, Sizes
<1>3. QED  BY <1>1, <1>2, Sizes

LEMMA PlaceIn == ASSUME NEW o \in Nat PROVE o % BSIZE \in InBlock
  BY Sizes DEF InBlock

LEMMA CNodeFields ==
  ASSUME NEW e \in CNode
  PROVE  /\ DOMAIN e = {"inum", "ref", "flags", "type", "nlink", "size", "addrs"}
         /\ e.inum \in 0 .. NINODES - 1 /\ e.ref \in Nat /\ e.type \in Types /\ e.nlink \in Nat
         /\ e.size \in 0 .. MaxSize /\ e.addrs \in Addrs
  BY DEF CNode

LEMMA OnDiskIs == ASSUME NEW e \in CNode PROVE OnDisk(e) \in DNode
  BY DEF CNode, DNode, OnDisk

\* A slot's entry changes.
LEMMA EntryTyped ==
  ASSUME NEW s, Typed(s), NEW ip \in Slots, NEW e \in CNode, e.ref > 0 => e.inum \in Inodes,
         NEW t, t = [s EXCEPT !.icache = [s.icache EXCEPT ![ip] = e]]
  PROVE  Typed(t)
  BY DEF Typed, DiskOK

-----------------------------------------------------------------------------
(***************************************************************************)
(* Blocks and the content of inodes do not touch the references.           *)
(***************************************************************************)
LEMMA ZeroBlockIs == ZeroBlock \in [InBlock -> Stored] /\ Zero \in Stored
<1>1. Zero \in Stored
  BY Sizes, DiskAssumption DEF Zero, Stored
<1>2. QED  BY <1>1 DEF ZeroBlock, InBlock

LEMMA BallocLeaves ==
  ASSUME NEW s, Typed(s) PROVE Leaves(s, balloc(s).s) /\ balloc(s).r \in Blocks
<1> DEFINE free == Blocks \ s.used
<1>1. CASE free = {}
  <2>1. balloc(s) = Returns(s, 0)
    BY <1>1 DEF balloc
  <2>2. QED  BY <2>1, KeepsAll, Sizes DEF Returns
<1>2. CASE free # {}
  <2>1. PICK b : b = Min(free)
    OBVIOUS
  <2>2. b \in Blocks
    BY <1>2, <2>1, MinIs, Sizes
  <2> DEFINE t == [s EXCEPT !.used = @ \cup {b}, !.data[b] = ZeroBlock]
  <2>3. balloc(s) = Returns(t, b)
    BY <1>2, <2>1 DEF balloc
  <2>4. Typed(t)
    BY <2>2, ZeroBlockIs DEF Typed, DiskOK
  <2>5. t.ftable = s.ftable /\ t.icache = s.icache
    BY DEF Typed
  <2> HIDE DEF t
  <2>6. QED  BY <2>2, <2>3, <2>4, <2>5 DEF Returns, Leaves, SameNode, SameUse
<1>3. QED  BY <1>1, <1>2

LEMMA BfreeLeaves == ASSUME NEW s, Typed(s), NEW b PROVE Leaves(s, bfree(s, b))
  BY DEF bfree, Leaves, Typed, DiskOK, SameNode, SameUse

LEMMA IupdateLeaves == ASSUME NEW s, Typed(s), NEW ip \in Slots PROVE Leaves(s, iupdate(s, ip))
<1> DEFINE d == OnDisk(s.icache[ip])
           i == s.icache[ip].inum
<1>1. d \in DNode
  BY OnDiskIs DEF Typed
<1>2. iupdate(s, ip) = [s EXCEPT !.dinode[i] = d]
  BY DEF iupdate
<1> HIDE DEF d, i
<1>3. QED  BY <1>1, <1>2 DEF Leaves, Typed, DiskOK, SameNode, SameUse

LEMMA FilledLeaves == ASSUME NEW s, Typed(s), NEW ip \in Slots, NEW n PROVE Leaves(s, Filled(s, ip, n))
<1> DEFINE new == balloc(s)
           t == [new.s EXCEPT !.icache[ip].addrs[n] = new.r]
<1>1. CASE s.icache[ip].addrs[n] # 0
  BY <1>1, KeepsAll DEF Filled
<1>2. CASE s.icache[ip].addrs[n] = 0
  <2>1. Filled(s, ip, n) = t
    BY <1>2 DEF Filled
  <2>2. Leaves(s, new.s) /\ Typed(new.s) /\ new.r \in Blocks
    BY BallocLeaves DEF Leaves
  <2> HIDE DEF new
  <2> DEFINE e == new.s.icache[ip]
             g == [e EXCEPT !.addrs[n] = new.r]
  <2>3. e \in CNode /\ (e.ref > 0 => e.inum \in Inodes)
    BY <2>2 DEF Typed
  <2>4. t = [new.s EXCEPT !.icache = [new.s.icache EXCEPT ![ip] = g]]
    BY <2>2 DEF Typed
  <2> HIDE DEF e
  <2>5. g \in CNode /\ SameNode(e, g)
    BY <2>2, <2>3 DEF CNode, Addrs, SameNode, SameUse
  <2>6. g.ref > 0 => g.inum \in Inodes
    BY <2>3, <2>5 DEF SameNode, SameUse
  <2> HIDE DEF g, t
  <2>7. Leaves(new.s, t)
    BY <2>2, <2>4, <2>5, <2>6, EntryTyped DEF Leaves, SameNode, SameUse, Typed, e
  <2>8. QED  BY <2>1, <2>2, <2>7, LeavesMore
<1>3. QED  BY <1>1, <1>2

LEMMA CellLeaves ==
  ASSUME NEW s, Typed(s), NEW cell \in Stored, NEW b, NEW o,
         NEW t, t = [s EXCEPT !.data[b][o] = cell]
  PROVE  Leaves(s, t)
<1> DEFINE block == [s.data[b] EXCEPT ![o] = cell]
           data == [s.data EXCEPT ![b] = block]
<1>1. t = [s EXCEPT !.data = data]
  BY DEF Typed
<1>2. b \in Blocks => block \in [InBlock -> Stored]
  BY DEF Typed, DiskOK
<1> HIDE DEF block
<1>3. data \in [Blocks -> [InBlock -> Stored]]
  BY <1>2 DEF Typed, DiskOK
<1> HIDE DEF data
<1>4. QED  BY <1>1, <1>3 DEF Leaves, Typed, DiskOK, SameNode, SameUse

LEMMA IndirectLeaves ==
  ASSUME NEW s, Typed(s), NEW ip \in Slots, NEW n
  PROVE  /\ Leaves(s, Indirect(s, ip, n).s)
         /\ n \in InBlock => Indirect(s, ip, n).r \in Blocks
<1> DEFINE table == s.icache[ip].addrs[NDIRECT]
           new == balloc(s)
           a == Address(new.r)
           t == [new.s EXCEPT !.data[table][n] = a]
<1>1. Leaves(s, new.s) /\ Typed(new.s) /\ new.r \in Blocks
  BY BallocLeaves DEF Leaves
<1>2. a \in Stored
  BY <1>1, DiskAssumption DEF Address, Stored
<1>3. table \in Blocks
  BY CNodeFields, Sizes DEF Typed, Addrs
<1>4. n \in InBlock => s.data[table][n].num \in Blocks
  BY <1>3 DEF Typed, DiskOK, Stored
<1>5. \/ Indirect(s, ip, n) = Returns(t, new.r)
      \/ Indirect(s, ip, n) = Returns(s, s.data[table][n].num)
  BY DEF Indirect
<1> HIDE DEF new, table, a
<1>6. Leaves(new.s, t)
  BY <1>1, <1>2, CellLeaves
<1> HIDE DEF t
<1>7. QED  BY <1>1, <1>4, <1>5, <1>6, KeepsAll, LeavesMore DEF Returns

LEMMA BmapLeaves ==
  ASSUME NEW s, Typed(s), NEW ip \in Slots, NEW bn
  PROVE  /\ Leaves(s, bmap(s, ip, bn).s)
         /\ bn \in 0 .. MAXFILE - 1 => bmap(s, ip, bn).r \in Blocks
<1> DEFINE direct == Filled(s, ip, bn)
           table == Filled(s, ip, NDIRECT)
<1>1. Leaves(s, direct) /\ Typed(direct) /\ Leaves(s, table) /\ Typed(table)
  BY FilledLeaves DEF Leaves
<1>2. /\ Leaves(s, Direct(direct, ip, bn).s)
      /\ bn \in 0 .. NDIRECT => Direct(direct, ip, bn).r \in Blocks
  BY <1>1, CNodeFields DEF Direct, Returns, Typed, Addrs
<1>3. /\ Leaves(s, Indirect(table, ip, bn - NDIRECT).s)
      /\ bn - NDIRECT \in InBlock => Indirect(table, ip, bn - NDIRECT).r \in Blocks
  BY <1>1, IndirectLeaves, LeavesMore
<1>4. bmap(s, ip, bn) = IF bn < NDIRECT THEN Direct(direct, ip, bn)
                        ELSE IF bn < MAXFILE THEN Indirect(table, ip, bn - NDIRECT)
                        ELSE Returns(s, -1)
  BY DEF bmap
<1> HIDE DEF direct, table
<1>5. bn \in 0 .. MAXFILE - 1 => bn \in 0 .. NDIRECT \/ (bn >= NDIRECT /\ bn - NDIRECT \in InBlock)
  BY Sizes DEF InBlock, MAXFILE
<1>6. Leaves(s, bmap(s, ip, bn).s)
  BY <1>2, <1>3, <1>4, KeepsAll DEF Returns
<1>7. ASSUME bn \in 0 .. MAXFILE - 1 PROVE bmap(s, ip, bn).r \in Blocks
  <2>1. CASE bn < NDIRECT
    BY <1>2, <1>4, <1>7, <2>1, Sizes
  <2>2. CASE ~(bn < NDIRECT)
    <3>1. bn < MAXFILE /\ bn - NDIRECT \in InBlock
      BY <1>7, <2>2, Sizes DEF InBlock, MAXFILE
    <3>2. QED  BY <1>3, <1>4, <2>2, <3>1
  <2>3. QED  BY <2>1, <2>2
<1>8. QED  BY <1>6, <1>7

-----------------------------------------------------------------------------
(***************************************************************************)
(* A loop of the code is a recursive function from the number of rounds to *)
(* what is there after them.  Each of these lemmas says that the function  *)
(* is there and unfolds.                                                   *)
(***************************************************************************)
LEMMA FreedIs ==
  ASSUME NEW s, NEW list, NEW n \in Nat, n = Len(list)
  PROVE  \E f : /\ f[0] = s /\ f[n] = Freed(s, list)
                /\ \A k \in 0 .. n - 1 :
                     f[k + 1] = IF list[k + 1] = 0 THEN f[k] ELSE bfree(f[k], list[k + 1])
<1> DEFINE Step(x, k) == IF list[k] = 0 THEN x ELSE bfree(x, list[k])
           Is(f, last) == f = [k \in 0 .. last |-> IF k = 0 THEN s ELSE Step(f[k - 1], k)]
           T == {last \in Nat : \E f : Is(f, last)}
<1>1. T = Nat
  <2> HIDE DEF Step
  <2>1. 0 \in T
    <3>1. Is([k \in 0 .. 0 |-> s], 0)
      OBVIOUS
    <3>2. QED  BY <3>1
  <2>2. ASSUME NEW last \in Nat, last \in T PROVE last + 1 \in T
    <3>1. PICK f : Is(f, last)
      BY <2>2
    <3> DEFINE g == [k \in 0 .. last + 1 |-> IF k <= last THEN f[k] ELSE Step(f[last], k)]
    <3>2. ASSUME NEW k \in 0 .. last + 1 PROVE g[k] = IF k = 0 THEN s ELSE Step(g[k - 1], k)
      BY <3>1
    <3> HIDE DEF Is
    <3>3. Is(g, last + 1)
      BY <3>2 DEF Is
    <3>4. QED  BY <3>3
  <2>3. QED
    <3> HIDE DEF T
    <3>1. Nat \subseteq T
      BY <2>1, <2>2, NatSetInduction
    <3>2. QED  BY <3>1 DEF T
<1> DEFINE after == CHOOSE f : Is(f, n)
<1>2. Is(after, n)
  BY <1>1
<1>3. Freed(s, list) = after[n]
  BY DEF Freed
<1> HIDE DEF after
<1>4. QED
  <2> HIDE DEF Step
  <2>1. after[0] = s /\ \A k \in 0 .. n - 1 : after[k + 1] = Step(after[k], k + 1)
    BY <1>2
  <2>2. QED  BY <1>3, <2>1 DEF Step

LEMMA FreedLeaves ==
  ASSUME NEW s, Typed(s), NEW list, Len(list) \in Nat PROVE Leaves(s, Freed(s, list))
<1>0. PICK n \in Nat : n = Len(list)
  OBVIOUS
<1>1. PICK f : /\ f[0] = s /\ f[n] = Freed(s, list)
               /\ \A k \in 0 .. n - 1 :
                    f[k + 1] = IF list[k + 1] = 0 THEN f[k] ELSE bfree(f[k], list[k + 1])
  BY <1>0, FreedIs
<1> DEFINE T == {k \in 0 .. n : Leaves(s, f[k])}
<1>2. 0 \in T
  BY <1>1, KeepsAll
<1>3. ASSUME NEW k \in 0 .. n - 1, k \in T PROVE k + 1 \in T
  <2>1. Leaves(s, f[k]) /\ Typed(f[k])
    BY <1>3 DEF Leaves
  <2>2. Leaves(f[k], f[k + 1])
    BY <1>1, <2>1, KeepsAll, BfreeLeaves
  <2>3. QED  BY <2>1, <2>2, LeavesMore
<1>4. 0 .. n \subseteq T
  <2> HIDE DEF T
  <2> QED  BY <1>0, <1>2, <1>3, IntervalInduction
<1>5. QED  BY <1>0, <1>1, <1>4

\* A slot's entry changes, but not its use.
LEMMA EntryKeeps ==
  ASSUME NEW s, Typed(s), NEW ip \in Slots, NEW e \in CNode, SameUse(s.icache[ip], e),
         NEW t, t = [s EXCEPT !.icache = [s.icache EXCEPT ![ip] = e]]
  PROVE  Keeps(s, t)
<1>1. e.ref > 0 => e.inum \in Inodes
  BY DEF Typed, SameUse
<1>2. Typed(t)
  BY <1>1, EntryTyped
<1>3. t.ftable = s.ftable /\ t.icache = [s.icache EXCEPT ![ip] = e] /\ DOMAIN s.icache = Slots
  BY DEF Typed
<1>4. QED  BY <1>2, <1>3 DEF Keeps, SameUse

LEMMA ItruncKeeps == ASSUME NEW s, Typed(s), NEW ip \in Slots PROVE Keeps(s, itrunc(s, ip))
<1> DEFINE addrs == s.icache[ip].addrs
           direct == [n \in 1 .. NDIRECT |-> addrs[n - 1]]
           inner == [n \in 1 .. NINDIRECT |-> s.data[addrs[NDIRECT]][n - 1].num]
           all == direct \o IF addrs[NDIRECT] = 0 THEN <<>> ELSE inner \o <<addrs[NDIRECT]>>
           freed == Freed(s, all)
           e == freed.icache[ip]
           g == [e EXCEPT !.addrs = FreeDinode.addrs, !.size = 0]
           t == [freed EXCEPT !.icache[ip].addrs = FreeDinode.addrs, !.icache[ip].size = 0]
<1>1. Len(all) \in Nat
  <2>1. NDIRECT \in Nat /\ NINDIRECT \in Nat
    BY Sizes
  <2>2. Len(direct) \in Nat /\ Len(inner) \in Nat
    BY <2>1
  <2> HIDE DEF direct, inner
  <2>3. Len(inner \o <<addrs[NDIRECT]>>) \in Nat /\ Len(<<>>) \in Nat
    BY <2>2
  <2>4. QED  BY <2>2, <2>3
<1> HIDE DEF all
<1>2. Leaves(s, freed) /\ Typed(freed)
  BY <1>1, FreedLeaves DEF Leaves
<1>3. itrunc(s, ip) = iupdate(t, ip)
  BY DEF itrunc, all
<1> HIDE DEF freed
<1>4. Keeps(freed, t) /\ Typed(t)
  <2>1. e \in CNode
    BY <1>2 DEF Typed
  <2>2. t = [freed EXCEPT !.icache = [freed.icache EXCEPT ![ip] = g]]
    BY <1>2, <2>1 DEF Typed, CNode
  <2> HIDE DEF e
  <2>3. FreeDinode.addrs \in Addrs /\ 0 \in 0 .. MaxSize
    BY Sizes DEF FreeDinode, Addrs
  <2>4. g \in CNode /\ SameUse(e, g)
    BY <2>1, <2>3 DEF CNode, SameUse
  <2> HIDE DEF g, t
  <2>5. Keeps(freed, t)
    BY <1>2, <2>2, <2>4, EntryKeeps DEF e
  <2>6. QED  BY <2>5 DEF Keeps
<1> HIDE DEF t
<1>5. Leaves(t, iupdate(t, ip))
  BY <1>4, IupdateLeaves
<1>6. QED  BY <1>2, <1>3, <1>4, <1>5, LeavesKeeps, KeepsMore

\* What readi does not read, and how much it reads of the rest.
Unreadable(s, ip, off, n) ==
  s.icache[ip].type = "dev" \/ off > s.icache[ip].size \/ (off + n) % UINT < off

Readable(s, ip, off, n) ==
  IF off + n > s.icache[ip].size THEN s.icache[ip].size - off ELSE n

\* The reading of one cell.
CellRead(x, ip, o) ==
  LET at == bmap(x.s, ip, o \div BSIZE)
  IN  [x EXCEPT !.s = at.s, !.cells = Append(@, at.s.data[at.r][o % BSIZE])]

Reads(f, s, ip, off, n, m) ==
  /\ f[0] = [s |-> s, r |-> m, cells |-> <<>>] /\ f[m] = readi(s, ip, off, n)
  /\ \A k \in 0 .. m - 1 : f[k + 1] = CellRead(f[k], ip, off + k)

LEMMA ReadIs ==
  ASSUME NEW s, NEW ip, NEW off \in Nat, NEW n, NEW m \in Nat,
         m = Readable(s, ip, off, n), ~Unreadable(s, ip, off, n)
  PROVE  \E f : Reads(f, s, ip, off, n, m)
<1> DEFINE Step(x, k) == CellRead(x, ip, off + k - 1)
           Is(f, last) == f = [k \in 0 .. last |-> IF k = 0 THEN [s |-> s, r |-> m, cells |-> <<>>] ELSE Step(f[k - 1], k)]
           T == {last \in Nat : \E f : Is(f, last)}
<1>1. T = Nat
  <2> HIDE DEF Step
  <2>1. 0 \in T
    <3>1. Is([k \in 0 .. 0 |-> [s |-> s, r |-> m, cells |-> <<>>]], 0)
      OBVIOUS
    <3>2. QED  BY <3>1
  <2>2. ASSUME NEW last \in Nat, last \in T PROVE last + 1 \in T
    <3>1. PICK f : Is(f, last)
      BY <2>2
    <3> DEFINE g == [k \in 0 .. last + 1 |-> IF k <= last THEN f[k] ELSE Step(f[last], k)]
    <3>2. ASSUME NEW k \in 0 .. last + 1 PROVE g[k] = IF k = 0 THEN [s |-> s, r |-> m, cells |-> <<>>] ELSE Step(g[k - 1], k)
      BY <3>1
    <3> HIDE DEF Is
    <3>3. Is(g, last + 1)
      BY <3>2 DEF Is
    <3>4. QED  BY <3>3
  <2>3. QED
    <3> HIDE DEF T
    <3>1. Nat \subseteq T
      BY <2>1, <2>2, NatSetInduction
    <3>2. QED  BY <3>1 DEF T
<1> DEFINE read == CHOOSE f : Is(f, m)
<1>2. Is(read, m)
  BY <1>1
<1>3. readi(s, ip, off, n) = read[m]
  BY DEF readi, CellRead, Unreadable, Readable
<1> HIDE DEF read
<1>4. QED
  <2> HIDE DEF Step
  <2>1. read[0] = [s |-> s, r |-> m, cells |-> <<>>] /\ \A k \in 0 .. m - 1 : read[k + 1] = Step(read[k], k + 1)
    BY <1>2
  <2>2. \A k \in 0 .. m - 1 : off + (k + 1) - 1 = off + k
    OBVIOUS
  <2>3. QED  BY <1>3, <2>1, <2>2 DEF Step, Reads

LEMMA CellReadLeaves ==
  ASSUME NEW x, DOMAIN x = {"s", "r", "cells"}, Typed(x.s), x.cells \in Seq(Stored),
         NEW ip \in Slots, NEW o \in Nat, o < MaxSize
  PROVE  LET y == CellRead(x, ip, o)
         IN  /\ DOMAIN y = DOMAIN x /\ Leaves(x.s, y.s) /\ y.r = x.r
             /\ y.cells \in Seq(Stored) /\ Len(y.cells) = Len(x.cells) + 1
<1> DEFINE at == bmap(x.s, ip, o \div BSIZE)
           cell == at.s.data[at.r][o % BSIZE]
<1>1. Leaves(x.s, at.s) /\ Typed(at.s) /\ at.r \in Blocks
  BY OffsetIn, BmapLeaves DEF Leaves
<1>2. CellRead(x, ip, o) = [x EXCEPT !.s = at.s, !.cells = Append(@, cell)]
  BY DEF CellRead
<1>3. cell \in Stored
  BY <1>1, PlaceIn DEF Typed, DiskOK
<1> HIDE DEF at, cell
<1>4. Append(x.cells, cell) \in Seq(Stored) /\ Len(Append(x.cells, cell)) = Len(x.cells) + 1
  BY <1>3
<1>5. QED  BY <1>1, <1>2, <1>4

LEMMA ReadiRefuses ==
  ASSUME NEW s, Typed(s), NEW ip, NEW off, NEW n, Unreadable(s, ip, off, n)
  PROVE  Leaves(s, readi(s, ip, off, n).s) /\ readi(s, ip, off, n).r = -1
<1>1. readi(s, ip, off, n) = [s |-> s, r |-> -1, cells |-> <<>>]
  BY DEF readi, Unreadable
<1>2. QED  BY <1>1, KeepsAll

LEMMA ReadiReads ==
  ASSUME NEW s, Typed(s), NEW ip \in Slots, NEW off \in Nat, NEW n \in Nat, ~Unreadable(s, ip, off, n)
  PROVE  LET read == readi(s, ip, off, n)
         IN  /\ Leaves(s, read.s) /\ read.r = Readable(s, ip, off, n)
             /\ read.r \in Nat /\ off + read.r <= s.icache[ip].size
             /\ read.cells \in Seq(Stored) /\ Len(read.cells) = read.r
<1>1. PICK size \in 0 .. MaxSize : size = s.icache[ip].size
  BY CNodeFields DEF Typed
<1>2. PICK m \in Nat : m = Readable(s, ip, off, n) /\ off + m <= size
  BY <1>1, Sizes DEF Readable, Unreadable
<1>3. PICK f : Reads(f, s, ip, off, n, m)
  BY <1>2, ReadIs
<1> DEFINE T == {k \in 0 .. m : /\ DOMAIN f[k] = {"s", "r", "cells"} /\ Leaves(s, f[k].s) /\ f[k].r = m
                                /\ f[k].cells \in Seq(Stored) /\ Len(f[k].cells) = k}
<1>4. 0 \in T
  <2>1. f[0] = [s |-> s, r |-> m, cells |-> <<>>] /\ Leaves(s, s)
    BY <1>3, KeepsAll DEF Reads
  <2>2. <<>> \in Seq(Stored) /\ Len(<<>>) = 0
    OBVIOUS
  <2>3. /\ DOMAIN f[0] = {"s", "r", "cells"} /\ f[0].s = s /\ f[0].r = m
        /\ f[0].cells \in Seq(Stored) /\ Len(f[0].cells) = 0
    BY <2>1, <2>2
  <2>4. 0 \in 0 .. m
    OBVIOUS
  <2>5. QED  BY <2>1, <2>3, <2>4
<1>5. ASSUME NEW k \in 0 .. m - 1, k \in T PROVE k + 1 \in T
  <2>1. /\ Leaves(s, f[k].s) /\ Typed(f[k].s) /\ DOMAIN f[k] = {"s", "r", "cells"} /\ f[k].r = m
        /\ f[k].cells \in Seq(Stored) /\ Len(f[k].cells) = k
    BY <1>5 DEF Leaves
  <2>2. off + k \in Nat /\ off + k < MaxSize
    BY <1>1, <1>2, Sizes
  <2> DEFINE y == CellRead(f[k], ip, off + k)
  <2>3. /\ Leaves(f[k].s, y.s) /\ DOMAIN y = {"s", "r", "cells"} /\ y.r = m
        /\ y.cells \in Seq(Stored) /\ Len(y.cells) = k + 1
    BY <2>1, <2>2, CellReadLeaves
  <2>4. f[k + 1] = y
    BY <1>3 DEF Reads
  <2> HIDE DEF y
  <2>5. Leaves(s, y.s)
    BY <2>1, <2>3, LeavesMore
  <2>6. QED  BY <2>3, <2>4, <2>5
<1>6. 0 .. m \subseteq T
  <2> HIDE DEF T
  <2> QED  BY <1>4, <1>5, IntervalInduction
<1>7. QED  BY <1>1, <1>2, <1>3, <1>6 DEF Reads

\* An entry of a directory can be read.
LEMMA ReadiOne ==
  ASSUME NEW s, Typed(s), NEW ip \in Slots, s.icache[ip].type = "dir",
         NEW off \in Nat, off < s.icache[ip].size
  PROVE  Leaves(s, readi(s, ip, off, 1).s) /\ readi(s, ip, off, 1).cells[1] \in Stored
<1>1. PICK size \in 0 .. MaxSize : size = s.icache[ip].size
  BY CNodeFields DEF Typed
<1>2. size \in Nat /\ off + 1 < UINT /\ off + 1 <= size
  BY <1>1, Sizes
<1>3. (off + 1) % UINT = off + 1
  BY <1>2, Sizes
<1>4. ~Unreadable(s, ip, off, 1) /\ Readable(s, ip, off, 1) = 1
  BY <1>1, <1>2, <1>3 DEF Unreadable, Readable
<1>5. PICK read : read = readi(s, ip, off, 1)
  OBVIOUS
<1>6. /\ Leaves(s, read.s) /\ read.r = Readable(s, ip, off, 1)
      /\ read.cells \in Seq(Stored) /\ Len(read.cells) = read.r
  BY <1>4, <1>5, ReadiReads
<1>7. QED  BY <1>4, <1>5, <1>6

-----------------------------------------------------------------------------
\* The writing of one cell.
CellWritten(x, ip, o, cell) ==
  LET at == bmap(x, ip, o \div BSIZE) IN [at.s EXCEPT !.data[at.r][o % BSIZE] = cell]

Writes(f, s, ip, off, n, cell) ==
  /\ f[0] = s /\ f[n] = Written(s, ip, off, n, cell)
  /\ \A k \in 0 .. n - 1 : f[k + 1] = CellWritten(f[k], ip, off + k, cell)

LEMMA WrittenIs ==
  ASSUME NEW s, NEW ip, NEW off \in Nat, NEW cell, NEW n \in Nat
  PROVE  \E f : Writes(f, s, ip, off, n, cell)
<1> DEFINE Step(x, k) == CellWritten(x, ip, off + k - 1, cell)
           Is(f, last) == f = [k \in 0 .. last |-> IF k = 0 THEN s ELSE Step(f[k - 1], k)]
           T == {last \in Nat : \E f : Is(f, last)}
<1>1. T = Nat
  <2> HIDE DEF Step
  <2>1. 0 \in T
    <3>1. Is([k \in 0 .. 0 |-> s], 0)
      OBVIOUS
    <3>2. QED  BY <3>1
  <2>2. ASSUME NEW last \in Nat, last \in T PROVE last + 1 \in T
    <3>1. PICK f : Is(f, last)
      BY <2>2
    <3> DEFINE g == [k \in 0 .. last + 1 |-> IF k <= last THEN f[k] ELSE Step(f[last], k)]
    <3>2. ASSUME NEW k \in 0 .. last + 1 PROVE g[k] = IF k = 0 THEN s ELSE Step(g[k - 1], k)
      BY <3>1
    <3> HIDE DEF Is
    <3>3. Is(g, last + 1)
      BY <3>2 DEF Is
    <3>4. QED  BY <3>3
  <2>3. QED
    <3> HIDE DEF T
    <3>1. Nat \subseteq T
      BY <2>1, <2>2, NatSetInduction
    <3>2. QED  BY <3>1 DEF T
<1> DEFINE written == CHOOSE f : Is(f, n)
<1>2. Is(written, n)
  BY <1>1
<1>3. Written(s, ip, off, n, cell) = written[n]
  BY DEF Written, CellWritten
<1> HIDE DEF written
<1>4. QED
  <2> HIDE DEF Step
  <2>1. written[0] = s /\ \A k \in 0 .. n - 1 : written[k + 1] = Step(written[k], k + 1)
    BY <1>2
  <2>2. \A k \in 0 .. n - 1 : off + (k + 1) - 1 = off + k
    OBVIOUS
  <2>3. QED  BY <1>3, <2>1, <2>2 DEF Step, Writes

LEMMA WrittenLeaves ==
  ASSUME NEW s, Typed(s), NEW ip \in Slots, NEW off \in Nat, NEW n \in Nat, off + n <= MaxSize,
         NEW cell \in Stored
  PROVE  Leaves(s, Written(s, ip, off, n, cell))
<1>1. PICK f : Writes(f, s, ip, off, n, cell)
  BY WrittenIs
<1> DEFINE T == {k \in 0 .. n : Leaves(s, f[k])}
<1>2. 0 \in T
  BY <1>1, KeepsAll DEF Writes
<1>3. ASSUME NEW k \in 0 .. n - 1, k \in T PROVE k + 1 \in T
  <2>1. Leaves(s, f[k]) /\ Typed(f[k])
    BY <1>3 DEF Leaves
  <2>2. PICK at : at = bmap(f[k], ip, (off + k) \div BSIZE)
    OBVIOUS
  <2>3. Leaves(f[k], at.s) /\ Typed(at.s)
    BY <2>1, <2>2, BmapLeaves DEF Leaves
  <2>4. Leaves(at.s, f[k + 1])
    <3>1. f[k + 1] = [at.s EXCEPT !.data[at.r][(off + k) % BSIZE] = cell]
      BY <1>1, <2>2 DEF Writes, CellWritten
    <3>2. QED  BY <2>3, <3>1, CellLeaves
  <2>5. QED  BY <2>1, <2>3, <2>4, LeavesMore
<1>4. 0 .. n \subseteq T
  <2> HIDE DEF T
  <2> QED  BY <1>2, <1>3, IntervalInduction
<1>5. QED  BY <1>1, <1>4 DEF Writes

LEMMA GrownKeeps ==
  ASSUME NEW s, Typed(s), NEW ip \in Slots, NEW size \in 0 .. MaxSize
  PROVE  Keeps(s, Grown(s, ip, size))
<1> DEFINE e == s.icache[ip]
           g == [e EXCEPT !.size = size]
           t == [s EXCEPT !.icache[ip].size = size]
<1>1. e \in CNode
  BY DEF Typed
<1>2. t = [s EXCEPT !.icache = [s.icache EXCEPT ![ip] = g]]
  BY <1>1 DEF Typed, CNode
<1>3. Grown(s, ip, size) \in {s, iupdate(t, ip)}
  BY DEF Grown
<1> HIDE DEF e
<1>4. g \in CNode /\ SameUse(e, g)
  BY <1>1 DEF CNode, SameUse
<1> HIDE DEF g, t
<1>5. Keeps(s, t) /\ Typed(t)
  <2>1. Keeps(s, t)
    BY <1>2, <1>4, EntryKeeps DEF e
  <2>2. QED  BY <2>1 DEF Keeps
<1>6. QED  BY <1>3, <1>5, IupdateLeaves, LeavesKeeps, KeepsMore, KeepsAll

LEMMA WriteiKeeps ==
  ASSUME NEW s, Typed(s), NEW ip \in Slots, NEW off \in Nat, NEW n \in Nat, NEW cell \in Stored
  PROVE  LET write == writei(s, ip, off, n, cell)
         IN  /\ Keeps(s, write.s) /\ write.r \in {-1, n}
             /\ write.r = n => off + n <= MaxSize
<1> DEFINE w == Written(s, ip, off, n, cell)
           t == Grown(w, ip, off + n)
<1>1. CASE Refused(s, ip, off, n)
  <2>1. writei(s, ip, off, n, cell) = Returns(s, -1)
    BY <1>1 DEF writei
  <2>2. QED  BY <2>1, KeepsAll DEF Returns
<1>2. CASE ~Refused(s, ip, off, n)
  <2>1. off + n \in 0 .. MaxSize
    BY <1>2, Sizes DEF Refused, MaxSize
  <2>2. Keeps(s, w) /\ Typed(w)
    BY <2>1, WrittenLeaves, LeavesKeeps DEF Keeps
  <2>3. writei(s, ip, off, n, cell) = Returns(t, n)
    BY <1>2 DEF writei
  <2> HIDE DEF w
  <2>4. Keeps(s, t)
    BY <2>1, <2>2, GrownKeeps, KeepsMore
  <2> HIDE DEF t
  <2>5. QED  BY <2>1, <2>3, <2>4 DEF Returns
<1>3. QED  BY <1>1, <1>2

-----------------------------------------------------------------------------
\* One round of the loop over a directory's entries.
EntryLooked(x, dp, o, name, size) ==
  LET read == readi(x.s, dp, o, 1)
  IN  IF x.at # size THEN x
      ELSE [s |-> read.s, de |-> read.cells[1],
            at |-> IF Wanted(read.cells[1], name) THEN o ELSE size]

Looks(f, s, dp, name, size) ==
  /\ f[0] = [s |-> s, at |-> size, de |-> Zero] /\ f[size] = Entries(s, dp, name)
  /\ \A k \in 0 .. size - 1 : f[k + 1] = EntryLooked(f[k], dp, k, name, size)

LEMMA EntriesIs ==
  ASSUME NEW s, NEW dp, NEW name, NEW size \in Nat, size = s.icache[dp].size
  PROVE  \E f : Looks(f, s, dp, name, size)
<1> DEFINE Step(x, k) == EntryLooked(x, dp, k - 1, name, size)
           Is(f, last) == f = [k \in 0 .. last |-> IF k = 0 THEN [s |-> s, at |-> size, de |-> Zero] ELSE Step(f[k - 1], k)]
           T == {last \in Nat : \E f : Is(f, last)}
<1>1. T = Nat
  <2> HIDE DEF Step
  <2>1. 0 \in T
    <3>1. Is([k \in 0 .. 0 |-> [s |-> s, at |-> size, de |-> Zero]], 0)
      OBVIOUS
    <3>2. QED  BY <3>1
  <2>2. ASSUME NEW last \in Nat, last \in T PROVE last + 1 \in T
    <3>1. PICK f : Is(f, last)
      BY <2>2
    <3> DEFINE g == [k \in 0 .. last + 1 |-> IF k <= last THEN f[k] ELSE Step(f[last], k)]
    <3>2. ASSUME NEW k \in 0 .. last + 1 PROVE g[k] = IF k = 0 THEN [s |-> s, at |-> size, de |-> Zero] ELSE Step(g[k - 1], k)
      BY <3>1
    <3> HIDE DEF Is
    <3>3. Is(g, last + 1)
      BY <3>2 DEF Is
    <3>4. QED  BY <3>3
  <2>3. QED
    <3> HIDE DEF T
    <3>1. Nat \subseteq T
      BY <2>1, <2>2, NatSetInduction
    <3>2. QED  BY <3>1 DEF T
<1> DEFINE looked == CHOOSE f : Is(f, size)
<1>2. Is(looked, size)
  BY <1>1
<1>3. Entries(s, dp, name) = looked[size]
  BY DEF Entries, EntryLooked
<1> HIDE DEF looked
<1>4. QED
  <2> HIDE DEF Step
  <2>1. looked[0] = [s |-> s, at |-> size, de |-> Zero] /\ \A k \in 0 .. size - 1 : looked[k + 1] = Step(looked[k], k + 1)
    BY <1>2
  <2>2. \A k \in 0 .. size - 1 : (k + 1) - 1 = k
    OBVIOUS
  <2>3. QED  BY <1>3, <2>1, <2>2 DEF Step, Looks

\* An entry that is found is one of the directory's.
LEMMA EntriesLeaves ==
  ASSUME NEW s, Typed(s), NEW dp \in Slots, s.icache[dp].type = "dir", NEW name
  PROVE  LET hit == Entries(s, dp, name)
         IN  /\ Leaves(s, hit.s) /\ hit.at \in 0 .. s.icache[dp].size
             /\ hit.at # s.icache[dp].size => hit.de \in Stored /\ Wanted(hit.de, name)
<1>1. PICK size \in 0 .. MaxSize : size = s.icache[dp].size
  BY CNodeFields DEF Typed
<1>2. size \in Nat
  BY Sizes
<1>3. PICK f : Looks(f, s, dp, name, size)
  BY <1>1, <1>2, EntriesIs
<1> DEFINE Good(x) == /\ Leaves(s, x.s) /\ x.at \in 0 .. size
                      /\ x.at # size => x.de \in Stored /\ Wanted(x.de, name)
           T == {k \in 0 .. size : Good(f[k])}
<1>4. 0 \in T
  BY <1>2, <1>3, KeepsAll DEF Looks
<1>5. ASSUME NEW k \in 0 .. size - 1, k \in T PROVE k + 1 \in T
  <2>1. PICK x, read : x = f[k].s /\ read = readi(x, dp, k, 1)
    OBVIOUS
  <2>2. Good(f[k]) /\ Leaves(s, x) /\ Typed(x)
    BY <1>5, <2>1 DEF Leaves
  <2>3. x.icache[dp].type = "dir" /\ x.icache[dp].size = size
    BY <1>1, <2>2 DEF Leaves, SameNode
  <2>4. Leaves(s, read.s) /\ read.cells[1] \in Stored
    <3>1. k \in Nat /\ k < size
      BY <1>2
    <3>2. Leaves(x, read.s) /\ read.cells[1] \in Stored
      BY <2>1, <2>2, <2>3, <3>1, ReadiOne
    <3>3. QED  BY <2>2, <3>2, LeavesMore
  <2>5. f[k + 1] = IF f[k].at # size THEN f[k]
                   ELSE [s |-> read.s, de |-> read.cells[1],
                         at |-> IF Wanted(read.cells[1], name) THEN k ELSE size]
    BY <1>3, <2>1 DEF Looks, EntryLooked
  <2>6. Good(f[k + 1])
    <3>1. CASE f[k].at # size
      BY <2>2, <2>5, <3>1
    <3>2. CASE f[k].at = size
      <4>1. /\ f[k + 1].s = read.s /\ f[k + 1].de = read.cells[1]
            /\ f[k + 1].at = IF Wanted(read.cells[1], name) THEN k ELSE size
        BY <2>5, <3>2
      <4>2. QED  BY <1>2, <2>4, <4>1
    <3>3. QED  BY <3>1, <3>2
  <2>7. QED  BY <1>2, <2>6
<1>6. 0 .. size \subseteq T
  <2> HIDE DEF T
  <2> QED  BY <1>2, <1>4, <1>5, IntervalInduction
<1>7. QED  BY <1>1, <1>2, <1>3, <1>6 DEF Looks

-----------------------------------------------------------------------------
(***************************************************************************)
(* References come and go by one.                                          *)
(***************************************************************************)
OneSlot(s) ==
  \A ip, other \in Slots :
    s.icache[ip].ref > 0 /\ s.icache[other].ref > 0 /\ s.icache[ip].inum = s.icache[other].inum
      => ip = other

Busy(e) == "BUSY" \in e.flags

\* One more reference to ip, which was in use for its inode or free, with no
\* other slot for the inode it is for now.
Gained(s, t, ip) ==
  /\ Typed(t) /\ t.ftable = s.ftable
  /\ t.icache[ip].ref = s.icache[ip].ref + 1
  /\ Busy(t.icache[ip]) => Busy(s.icache[ip])
  /\ \/ s.icache[ip].ref > 0 /\ t.icache[ip].inum = s.icache[ip].inum
     \/ /\ s.icache[ip].ref = 0 /\ ~Busy(t.icache[ip])
        /\ \A other \in Slots :
             s.icache[other].ref > 0 => s.icache[other].inum # t.icache[ip].inum
  /\ \A other \in Slots \ {ip} : SameUse(s.icache[other], t.icache[other])

\* One reference less.
Dropped(s, t, ip) ==
  /\ Typed(t) /\ t.ftable = s.ftable
  /\ t.icache[ip].ref = s.icache[ip].ref - 1
  /\ t.icache[ip].inum = s.icache[ip].inum
  /\ Busy(t.icache[ip]) => Busy(s.icache[ip])
  /\ \A other \in Slots \ {ip} : SameUse(s.icache[other], t.icache[other])

\* What a call that returns a slot does.
Got(s, t, r) == (r = NULL /\ Leaves(s, t)) \/ (r \in Slots /\ Gained(s, t, r))

LEMMA IgetGets == ASSUME NEW s, Typed(s), NEW i \in Inodes PROVE Got(s, iget(s, i).s, iget(s, i).r)
<1> DEFINE found == {ip \in Slots : s.icache[ip].ref > 0 /\ s.icache[ip].inum = i}
           empty == {ip \in Slots : s.icache[ip].ref = 0}
<1>1. found \subseteq Nat /\ empty \subseteq Nat
  BY Sizes
<1>2. CASE found # {}
  <2>1. PICK r : r = Min(found)
    OBVIOUS
  <2>2. r \in found
    BY <1>1, <1>2, <2>1, MinIs
  <2>3. PICK e \in CNode : e = s.icache[r]
    BY <2>2 DEF Typed
  <2> DEFINE g == [e EXCEPT !.ref = @ + 1]
             t == [s EXCEPT !.icache[r].ref = @ + 1]
  <2>4. iget(s, i) = Returns(t, r)
    BY <1>2, <2>1 DEF iget
  <2>5. t = [s EXCEPT !.icache = [s.icache EXCEPT ![r] = g]]
    BY <2>2, <2>3 DEF Typed, CNode
  <2>6. g \in CNode /\ g.ref = e.ref + 1 /\ g.inum = e.inum /\ g.flags = e.flags /\ g.inum \in Inodes
    BY <2>2, <2>3 DEF CNode
  <2> HIDE DEF t, g
  <2>7. Typed(t) /\ t.ftable = s.ftable /\ t.icache = [s.icache EXCEPT ![r] = g]
    <3>1. Typed(t)
      BY <2>2, <2>5, <2>6, EntryTyped
    <3>2. QED  BY <2>5, <3>1 DEF Typed
  <2>8. Gained(s, t, r)
    BY <2>2, <2>3, <2>6, <2>7 DEF Gained, SameUse, Busy, Typed
  <2>9. QED  BY <2>2, <2>4, <2>8 DEF Got, Returns
<1>3. CASE found = {} /\ empty = {}
  <2>1. iget(s, i) = Returns(s, NULL)
    BY <1>3 DEF iget
  <2>2. QED  BY <2>1, KeepsAll DEF Got, Returns
<1>4. CASE found = {} /\ empty # {}
  <2>1. PICK r : r = Min(empty)
    OBVIOUS
  <2>2. r \in empty
    BY <1>1, <1>4, <2>1, MinIs
  <2>3. PICK e \in CNode : e = s.icache[r]
    BY <2>2 DEF Typed
  <2> DEFINE g == [e EXCEPT !.inum = i, !.ref = 1, !.flags = {}]
             t == [s EXCEPT !.icache[r] = [@ EXCEPT !.inum = i, !.ref = 1, !.flags = {}]]
  <2>4. iget(s, i) = Returns(t, r)
    BY <1>4, <2>1 DEF iget
  <2>5. t = [s EXCEPT !.icache = [s.icache EXCEPT ![r] = g]]
    BY <2>2, <2>3 DEF Typed, CNode
  <2>6. g \in CNode /\ g.ref = 1 /\ g.inum = i /\ g.flags = {}
    BY <2>3, Sizes DEF CNode
  <2> HIDE DEF t, g
  <2>7. Typed(t) /\ t.ftable = s.ftable /\ t.icache = [s.icache EXCEPT ![r] = g]
    <3>1. Typed(t)
      BY <2>2, <2>5, <2>6, EntryTyped
    <3>2. QED  BY <2>5, <3>1 DEF Typed
  <2>8. \A other \in Slots : s.icache[other].ref > 0 => s.icache[other].inum # i
    BY <1>4
  <2>9. Gained(s, t, r)
    BY <2>2, <2>6, <2>7, <2>8 DEF Gained, SameUse, Busy, Typed
  <2>10. QED  BY <2>2, <2>4, <2>9 DEF Got, Returns
<1>5. QED  BY <1>2, <1>3, <1>4

\* Only what is locked and has no other reference is kept.
Put(s, t, ip) == Dropped(s, t, ip) \/ (t = s /\ s.icache[ip].ref = 1 /\ Busy(s.icache[ip]))

\* ip's entry with one reference less and no more flags.
LEMMA EntryDropped ==
  ASSUME NEW s, Typed(s), NEW ip \in Slots, s.icache[ip].ref > 0, NEW e \in CNode,
         e.ref = s.icache[ip].ref - 1, e.inum = s.icache[ip].inum, e.flags \subseteq s.icache[ip].flags,
         NEW t, t = [s EXCEPT !.icache = [s.icache EXCEPT ![ip] = e]]
  PROVE  Dropped(s, t, ip)
<1>1. e.ref > 0 => e.inum \in Inodes
  BY DEF Typed
<1>2. Typed(t)
  BY <1>1, EntryTyped
<1>3. t.ftable = s.ftable /\ t.icache = [s.icache EXCEPT ![ip] = e] /\ DOMAIN s.icache = Slots
  BY DEF Typed
<1>4. QED  BY <1>2, <1>3 DEF Dropped, SameUse, Busy

LEMMA KeepsThenGained ==
  ASSUME NEW s, NEW t, NEW u, NEW ip \in Slots, Keeps(s, t), Gained(t, u, ip)
  PROVE  Gained(s, u, ip)
  BY DEF Keeps, Gained, SameUse, Busy

LEMMA KeepsThenDropped ==
  ASSUME NEW s, NEW t, NEW u, NEW ip \in Slots, Keeps(s, t), Dropped(t, u, ip)
  PROVE  Dropped(s, u, ip)
  BY DEF Keeps, Dropped, SameUse, Busy

LEMMA IputPuts ==
  ASSUME NEW s, Typed(s), NEW ip \in Slots, s.icache[ip].ref > 0
  PROVE  Put(s, iput(s, ip), ip)
<1> DEFINE last == s.icache[ip].ref = 1 /\ "VALID" \in s.icache[ip].flags /\ s.icache[ip].nlink = 0
           typed == [itrunc(s, ip) EXCEPT !.icache[ip].type = "free"]
           freed == iupdate(typed, ip)
           t == [freed EXCEPT !.icache[ip].flags = {}, !.icache[ip].ref = @ - 1]
           u == [s EXCEPT !.icache[ip].ref = @ - 1]
<1>1. CASE last /\ Busy(s.icache[ip])
  BY <1>1 DEF iput, Put, Busy
<1>2. CASE last /\ ~Busy(s.icache[ip])
  <2>1. iput(s, ip) = t
    BY <1>2 DEF iput, Busy
  <2>2. PICK trunc : trunc = itrunc(s, ip)
    OBVIOUS
  <2>3. Keeps(s, trunc) /\ Typed(trunc)
    BY <2>2, ItruncKeeps DEF Keeps
  <2>4. Keeps(trunc, typed) /\ Typed(typed)
    <3>1. PICK e \in CNode : e = trunc.icache[ip]
      BY <2>3 DEF Typed
    <3> DEFINE g == [e EXCEPT !.type = "free"]
    <3>2. typed = [trunc EXCEPT !.icache = [trunc.icache EXCEPT ![ip] = g]]
      BY <2>2, <2>3, <3>1 DEF Typed
    <3>3. g \in CNode /\ SameUse(e, g)
      BY DEF CNode, Types, SameUse
    <3> HIDE DEF typed, g
    <3>4. Keeps(trunc, typed)
      BY <2>3, <3>1, <3>2, <3>3, EntryKeeps
    <3>5. QED  BY <3>4 DEF Keeps
  <2> HIDE DEF typed
  <2>5. Leaves(typed, freed)
    BY <2>4, IupdateLeaves
  <2> HIDE DEF freed
  <2>6. Keeps(s, freed)
    BY <2>3, <2>4, <2>5, LeavesKeeps, KeepsMore
  <2>7. Typed(freed) /\ freed.icache[ip].ref > 0
    BY <2>6 DEF Keeps, SameUse
  <2>8. Dropped(freed, t, ip)
    <3>1. PICK e \in CNode : e = freed.icache[ip]
      BY <2>7 DEF Typed
    <3> DEFINE g == [e EXCEPT !.flags = {}, !.ref = @ - 1]
    <3>2. t = [freed EXCEPT !.icache = [freed.icache EXCEPT ![ip] = g]]
      BY <2>7, <3>1 DEF Typed, CNode
    <3>3. PICK n \in Nat : n = e.ref - 1
      BY <2>7, <3>1, CNodeFields
    <3>4. g = [e EXCEPT !.flags = {}, !.ref = n]
      BY <3>3
    <3>5. g \in CNode /\ g.ref = n /\ g.inum = e.inum /\ g.flags = {}
      BY <3>4 DEF CNode
    <3> HIDE DEF t, g
    <3>6. QED  BY <2>7, <3>1, <3>2, <3>3, <3>5, EntryDropped
  <2> HIDE DEF t
  <2>9. QED  BY <2>1, <2>6, <2>8, KeepsThenDropped DEF Put
<1>3. CASE ~last
  <2>1. iput(s, ip) = u
    BY <1>3 DEF iput
  <2>2. PICK e \in CNode : e = s.icache[ip]
    BY DEF Typed
  <2> DEFINE g == [e EXCEPT !.ref = @ - 1]
  <2>3. u = [s EXCEPT !.icache = [s.icache EXCEPT ![ip] = g]]
    BY <2>2 DEF Typed
  <2>4. g \in CNode /\ g.ref = e.ref - 1 /\ g.inum = e.inum /\ g.flags = e.flags
    BY <2>2 DEF CNode
  <2> HIDE DEF u, g
  <2>5. Dropped(s, u, ip)
    BY <2>2, <2>3, <2>4, EntryDropped
  <2>6. QED  BY <2>1, <2>5 DEF Put
<1>4. QED  BY <1>1, <1>2, <1>3

LEMMA IdupGains ==
  ASSUME NEW s, Typed(s), NEW ip \in Slots, s.icache[ip].ref > 0
  PROVE  Gained(s, idup(s, ip), ip)
<1>1. PICK e \in CNode : e = s.icache[ip]
  BY DEF Typed
<1>2. PICK t : t = idup(s, ip)
  OBVIOUS
<1> DEFINE g == [e EXCEPT !.ref = @ + 1]
<1>3. t = [s EXCEPT !.icache = [s.icache EXCEPT ![ip] = g]]
  BY <1>1, <1>2 DEF Typed, idup
<1>4. g \in CNode /\ g.ref = e.ref + 1 /\ g.inum = e.inum /\ g.flags = e.flags /\ g.inum \in Inodes
  BY <1>1 DEF CNode, Typed
<1> HIDE DEF g
<1>5. Typed(t)
  BY <1>3, <1>4, EntryTyped
<1>6. t.ftable = s.ftable /\ t.icache = [s.icache EXCEPT ![ip] = g] /\ DOMAIN s.icache = Slots
  BY <1>3 DEF Typed
<1>7. Gained(s, t, ip)
  BY <1>1, <1>4, <1>5, <1>6 DEF Gained, SameUse, Busy
<1>8. QED  BY <1>2, <1>7

-----------------------------------------------------------------------------
\* Locking: other flags for ip, and what was on the disk in its entry.
Flagged(s, t, ip) ==
  /\ Typed(t) /\ t.ftable = s.ftable
  /\ t.icache[ip].ref = s.icache[ip].ref /\ t.icache[ip].inum = s.icache[ip].inum
  /\ \A other \in Slots \ {ip} : SameUse(s.icache[other], t.icache[other])

LEMMA EntryFlagged ==
  ASSUME NEW s, Typed(s), NEW ip \in Slots, NEW e \in CNode,
         e.ref = s.icache[ip].ref, e.inum = s.icache[ip].inum,
         NEW t, t = [s EXCEPT !.icache = [s.icache EXCEPT ![ip] = e]]
  PROVE  Flagged(s, t, ip) /\ t.icache[ip] = e
<1>1. e.ref > 0 => e.inum \in Inodes
  BY DEF Typed
<1>2. Typed(t)
  BY <1>1, EntryTyped
<1>3. t.ftable = s.ftable /\ t.icache = [s.icache EXCEPT ![ip] = e] /\ DOMAIN s.icache = Slots
  BY DEF Typed
<1>4. QED  BY <1>2, <1>3 DEF Flagged, SameUse

LEMMA IunlockFlags ==
  ASSUME NEW s, Typed(s), NEW ip \in Slots, s.icache[ip].ref > 0
  PROVE  Flagged(s, iunlock(s, ip), ip) /\ ~Busy(iunlock(s, ip).icache[ip])
<1>1. PICK e \in CNode : e = s.icache[ip]
  BY DEF Typed
<1>2. ip # NULL /\ ~(e.ref < 1)
  BY <1>1, Sizes DEF CNode
<1>3. CASE ~Busy(e)
  <2>1. iunlock(s, ip) = s
    BY <1>1, <1>3 DEF iunlock, Busy
  <2>2. QED  BY <1>1, <1>3, <2>1 DEF Flagged, SameUse
<1>4. CASE Busy(e)
  <2>1. PICK t : t = iunlock(s, ip)
    OBVIOUS
  <2> DEFINE g == [e EXCEPT !.flags = @ \ {"BUSY"}]
  <2>2. t = [s EXCEPT !.icache = [s.icache EXCEPT ![ip] = g]]
    BY <1>1, <1>2, <1>4, <2>1 DEF iunlock, Busy, Typed
  <2>3. g \in CNode /\ g.ref = e.ref /\ g.inum = e.inum /\ ~Busy(g)
    BY DEF CNode, Busy
  <2> HIDE DEF g
  <2>4. Flagged(s, t, ip) /\ t.icache[ip] = g
    BY <1>1, <2>2, <2>3, EntryFlagged
  <2>5. QED  BY <2>1, <2>3, <2>4
<1>5. QED  BY <1>3, <1>4

LEMMA IlockFlags ==
  ASSUME NEW s, Typed(s), NEW ip \in Slots, s.icache[ip].ref > 0
  PROVE  Flagged(s, ilock(s, ip), ip)
<1>1. PICK e \in CNode : e = s.icache[ip]
  BY DEF Typed
<1>2. PICK d \in DNode : d = s.dinode[e.inum]
  BY <1>1 DEF Typed, DiskOK
<1>3. PICK t : t = ilock(s, ip)
  OBVIOUS
<1>4. ip # NULL /\ ~(e.ref < 1)
  BY <1>1, Sizes DEF CNode
<1> DEFINE g == IF "VALID" \in e.flags THEN [e EXCEPT !.flags = @ \cup {"BUSY"}]
                ELSE [e EXCEPT !.flags = {"BUSY", "VALID"}, !.type = d.type, !.nlink = d.nlink,
                               !.size = d.size, !.addrs = d.addrs]
<1>5. t = [s EXCEPT !.icache = [s.icache EXCEPT ![ip] = g]]
  BY <1>1, <1>2, <1>3, <1>4 DEF ilock, Typed
<1>6. g \in CNode /\ g.ref = e.ref /\ g.inum = e.inum
  <2>1. CASE "VALID" \in e.flags
    BY <2>1 DEF CNode
  <2>2. CASE "VALID" \notin e.flags
    BY <2>2 DEF CNode, DNode
  <2>3. QED  BY <2>1, <2>2
<1> HIDE DEF g
<1>7. Flagged(s, t, ip)
  BY <1>1, <1>5, <1>6, EntryFlagged
<1>8. QED  BY <1>3, <1>7

LEMMA GotAfter ==
  ASSUME NEW s, NEW t, NEW u, NEW r, Leaves(s, t), Got(t, u, r)
  PROVE  Got(s, u, r)
  BY LeavesKeeps, LeavesMore, KeepsThenGained DEF Got

\* What is called with a type a client may give.
LEMMA IallocGets ==
  ASSUME NEW s, Typed(s), NEW type \in Types PROVE Got(s, ialloc(s, type).s, ialloc(s, type).r)
<1> DEFINE free == {i \in Inodes : s.dinode[i].type = "free"}
           d == [FreeDinode EXCEPT !.type = type]
<1>1. CASE free = {}
  <2>1. ialloc(s, type) = Returns(s, NULL)
    BY <1>1 DEF ialloc
  <2>2. QED  BY <2>1, KeepsAll DEF Got, Returns
<1>2. CASE free # {}
  <2>1. PICK i : i = Min(free)
    OBVIOUS
  <2>2. i \in Inodes
    <3>1. free \subseteq Nat
      BY Sizes
    <3>2. i \in free
      BY <1>2, <2>1, <3>1, MinIs
    <3>3. QED  BY <3>2
  <2>3. PICK t : t = [s EXCEPT !.dinode[i] = d]
    OBVIOUS
  <2>4. ialloc(s, type) = iget(t, i)
    BY <1>2, <2>1, <2>3 DEF ialloc
  <2>5. d \in DNode
    BY Sizes DEF FreeDinode, DNode, Addrs
  <2> HIDE DEF d
  <2>6. Leaves(s, t)
    BY <2>2, <2>3, <2>5 DEF Leaves, Typed, DiskOK, SameNode, SameUse
  <2>7. Got(t, iget(t, i).s, iget(t, i).r)
    BY <2>2, <2>6, IgetGets DEF Leaves
  <2>8. QED  BY <2>4, <2>6, <2>7, GotAfter
<1>3. QED  BY <1>1, <1>2

\* A name that is found is an inode's.
LEMMA DirlookupGets ==
  ASSUME NEW s, Typed(s), NEW dp \in Slots, NEW name \in Name
  PROVE  Got(s, dirlookup(s, dp, name).s, dirlookup(s, dp, name).r)
<1>1. CASE s.icache[dp].type # "dir"
  <2>1. dirlookup(s, dp, name) = Returns(s, NULL)
    BY <1>1 DEF dirlookup
  <2>2. QED  BY <2>1, KeepsAll DEF Got, Returns
<1>2. CASE s.icache[dp].type = "dir"
  <2>1. PICK hit : hit = Entries(s, dp, name)
    OBVIOUS
  <2>2. /\ Leaves(s, hit.s) /\ Typed(hit.s)
        /\ hit.at # s.icache[dp].size => hit.de \in Stored /\ Wanted(hit.de, name)
    <3>1. /\ Leaves(s, hit.s)
          /\ hit.at # s.icache[dp].size => hit.de \in Stored /\ Wanted(hit.de, name)
      BY <1>2, <2>1, EntriesLeaves
    <3>2. QED  BY <3>1 DEF Leaves
  <2>3. CASE hit.at = s.icache[dp].size
    <3>1. dirlookup(s, dp, name) = Returns(hit.s, NULL)
      BY <1>2, <2>1, <2>3 DEF dirlookup
    <3>2. QED  BY <2>2, <3>1 DEF Got, Returns
  <2>4. CASE hit.at # s.icache[dp].size
    <3>1. hit.de.num \in Inodes
      <4>1. name # NoName /\ Cut[name] \in Name
        BY DiskAssumption DEF NoName
      <4>2. hit.de.num # 0 /\ hit.de.name \in Name
        BY <2>2, <2>4, <4>1 DEF Wanted, namecmp
      <4>3. QED  BY <2>2, <2>4, <4>2 DEF Stored
    <3>2. dirlookup(s, dp, name) = iget(hit.s, hit.de.num)
      BY <1>2, <2>1, <2>4 DEF dirlookup
    <3>3. Got(hit.s, iget(hit.s, hit.de.num).s, iget(hit.s, hit.de.num).r)
      BY <2>2, <3>1, IgetGets
    <3>4. QED  BY <2>2, <3>2, <3>3, GotAfter
  <2>5. QED  BY <2>3, <2>4
<1>3. QED  BY <1>1, <1>2

LEMMA LinkedKeeps ==
  ASSUME NEW s, Typed(s), NEW dp \in Slots, s.icache[dp].type = "dir", NEW name \in Name,
         NEW i \in Inodes
  PROVE  Keeps(s, Linked(s, dp, name, i).s)
<1>1. PICK hit : hit = Entries(s, dp, NoName)
  OBVIOUS
<1>2. Leaves(s, hit.s) /\ hit.at \in 0 .. s.icache[dp].size
  BY <1>1, EntriesLeaves
<1>3. Typed(hit.s) /\ hit.at \in Nat
  BY <1>2, CNodeFields, Sizes DEF Leaves, Typed
<1>4. Dirent(name, i) \in Stored
  BY DiskAssumption, Sizes DEF Dirent, Stored
<1>5. PICK write : write = writei(hit.s, dp, hit.at, 1, Dirent(name, i))
  OBVIOUS
<1>6. Keeps(hit.s, write.s)
  BY <1>3, <1>4, <1>5, WriteiKeeps
<1>7. Linked(s, dp, name, i).s = write.s
  BY <1>1, <1>5 DEF Linked, Returns
<1>8. QED  BY <1>2, <1>6, <1>7, LeavesKeeps, KeepsMore

-----------------------------------------------------------------------------
(***************************************************************************)
(* Calls that leave every reference where it is and lock at most the slots *)
(* of L.                                                                   *)
(***************************************************************************)
SameFile(e, g) == g.ref = e.ref /\ g.type = e.type /\ g.ip = e.ip

Holds(s, t, L) ==
  /\ Typed(t)
  /\ \A f \in Files : SameFile(s.ftable[f], t.ftable[f])
  /\ \A ip \in Slots :
       /\ t.icache[ip].ref = s.icache[ip].ref
       /\ s.icache[ip].ref > 0 => t.icache[ip].inum = s.icache[ip].inum
       /\ Busy(t.icache[ip]) => Busy(s.icache[ip]) \/ ip \in L

LEMMA HoldsMore ==
  ASSUME NEW s, NEW t, NEW u, NEW L, Holds(s, t, L), Holds(t, u, L)
  PROVE  Holds(s, u, L)
  BY DEF Holds, SameFile

LEMMA KeepsHolds == ASSUME NEW s, NEW t, NEW L, Keeps(s, t) PROVE Holds(s, t, L)
  BY DEF Keeps, Holds, SameUse, SameFile, Busy

LEMMA FlaggedHolds ==
  ASSUME NEW s, NEW t, NEW ip \in Slots, Flagged(s, t, ip) PROVE Holds(s, t, {ip})
  BY DEF Flagged, Holds, SameUse, SameFile, Busy

LEMMA HoldsUnlocked ==
  ASSUME NEW s, NEW t, NEW ip \in Slots, Holds(s, t, {ip}), ~Busy(t.icache[ip])
  PROVE  Holds(s, t, {})
  BY DEF Holds

\* A reference got and put back.
LEMMA DirlinkHolds ==
  ASSUME NEW s, Typed(s), NEW dp \in Slots, s.icache[dp].type = "dir", NEW name \in Name,
         NEW i \in Inodes
  PROVE  Holds(s, dirlink(s, dp, name, i).s, {})
<1>1. PICK old : old = dirlookup(s, dp, name)
  OBVIOUS
<1>2. Got(s, old.s, old.r)
  BY <1>1, DirlookupGets
<1>3. CASE old.r = NULL
  <2>1. Leaves(s, old.s)
    BY <1>2, <1>3, Sizes DEF Got
  <2>2. Typed(old.s) /\ old.s.icache[dp].type = "dir"
    BY <2>1 DEF Leaves, SameNode
  <2>3. dirlink(s, dp, name, i) = Linked(old.s, dp, name, i)
    BY <1>1, <1>3 DEF dirlink
  <2>4. QED  BY <2>1, <2>2, <2>3, LinkedKeeps, LeavesKeeps, KeepsMore, KeepsHolds
<1>4. CASE old.r # NULL
  <2>1. PICK r \in Slots : r = old.r /\ Gained(s, old.s, r)
    BY <1>2, <1>4 DEF Got
  <2>2. PICK t : t = iput(old.s, r)
    OBVIOUS
  <2>3. dirlink(s, dp, name, i).s = t
    BY <1>1, <1>4, <2>1, <2>2 DEF dirlink, Returns
  <2>4. s.icache[r].ref \in Nat
    BY CNodeFields DEF Typed
  <2>5. Typed(old.s) /\ old.s.icache[r].ref = s.icache[r].ref + 1
    BY <2>1 DEF Gained
  <2>6. Put(old.s, t, r)
    BY <2>2, <2>4, <2>5, IputPuts
  <2>7. Dropped(old.s, t, r)
    BY <2>1, <2>4, <2>5, <2>6 DEF Put, Gained
  <2>8. Holds(s, t, {})
    BY <2>1, <2>4, <2>5, <2>7 DEF Gained, Dropped, Holds, SameUse, SameFile, Busy
  <2>9. QED  BY <2>3, <2>8
<1>5. QED  BY <1>3, <1>4

\* The link count is set and saved.
LEMMA SetLinksHolds ==
  ASSUME NEW s, Typed(s), NEW ip \in Slots, NEW n \in Nat
  PROVE  Holds(s, iupdate([s EXCEPT !.icache[ip].nlink = n], ip), {})
<1>1. PICK e \in CNode : e = s.icache[ip]
  BY DEF Typed
<1>2. PICK t : t = [s EXCEPT !.icache[ip].nlink = n]
  OBVIOUS
<1> DEFINE g == [e EXCEPT !.nlink = n]
<1>3. t = [s EXCEPT !.icache = [s.icache EXCEPT ![ip] = g]]
  BY <1>1, <1>2 DEF Typed
<1>4. g \in CNode /\ SameUse(e, g)
  BY DEF CNode, SameUse
<1> HIDE DEF g
<1>5. Keeps(s, t)
  BY <1>1, <1>3, <1>4, EntryKeeps
<1>6. Leaves(t, iupdate(t, ip))
  BY <1>5, IupdateLeaves DEF Keeps
<1>7. QED  BY <1>2, <1>5, <1>6, LeavesKeeps, KeepsMore, KeepsHolds

-----------------------------------------------------------------------------
(***************************************************************************)
(* The walk of namex: it keeps every reference it gets, but the last one   *)
(* of a lookup of a parent that did not get that far.                      *)
(***************************************************************************)
Grew(s, t) ==
  /\ Typed(t) /\ t.ftable = s.ftable /\ OneSlot(t)
  /\ \A ip \in Slots :
       /\ t.icache[ip].ref >= s.icache[ip].ref
       /\ s.icache[ip].ref > 0 => t.icache[ip].inum = s.icache[ip].inum
       /\ Busy(t.icache[ip]) => Busy(s.icache[ip])

Refs(s, ip) == s.icache[ip].ref

LEMMA RefIs == ASSUME NEW s, Typed(s), NEW ip \in Slots PROVE Refs(s, ip) \in Nat
  BY CNodeFields DEF Typed, Refs

LEMMA GotGrows ==
  ASSUME NEW s, Typed(s), OneSlot(s), NEW t, NEW r, Got(s, t, r)
  PROVE  Grew(s, t) /\ (r # NULL => r \in Slots /\ Refs(t, r) = Refs(s, r) + 1)
<1>1. \A ip \in Slots : s.icache[ip].ref \in Nat
  BY CNodeFields DEF Typed
<1>2. CASE r = NULL
  <2>1. Leaves(s, t)
    BY <1>2, Sizes DEF Got
  <2>2. Grew(s, t)
    BY <1>1, <2>1 DEF Leaves, SameNode, SameUse, Grew, OneSlot, Busy
  <2>3. QED  BY <1>2, <2>2
<1>3. CASE r # NULL
  <2>1. r \in Slots /\ Gained(s, t, r)
    BY <1>3 DEF Got
  <2>2. OneSlot(t)
    BY <1>1, <2>1 DEF Gained, SameUse, OneSlot
  <2>3. Grew(s, t)
    BY <1>1, <2>1, <2>2 DEF Gained, SameUse, Grew, Busy
  <2>4. QED  BY <2>1, <2>3 DEF Gained, Refs
<1>4. QED  BY <1>2, <1>3

LEMMA GrewMore ==
  ASSUME NEW s, Typed(s), NEW t, NEW u, Grew(s, t), Grew(t, u)
  PROVE  Grew(s, u)
<1>1. \A ip \in Slots : Refs(s, ip) \in Nat /\ Refs(t, ip) \in Nat /\ Refs(u, ip) \in Nat
  BY RefIs DEF Grew
<1>2. QED  BY <1>1 DEF Grew, Refs

WalkStart(s) == [s |-> iget(s, ROOTINO).s, ip |-> iget(s, ROOTINO).r, done |-> FALSE]

LEMMA DroppedOneSlot ==
  ASSUME NEW s, Typed(s), OneSlot(s), NEW ip \in Slots, NEW t, Dropped(s, t, ip)
  PROVE  OneSlot(t)
<1>1. \A other \in Slots : s.icache[other].ref \in Nat
  BY CNodeFields DEF Typed
<1>2. ASSUME NEW other \in Slots
      PROVE  /\ t.icache[other].ref > 0 => s.icache[other].ref > 0
             /\ t.icache[other].inum = s.icache[other].inum
  <2>1. CASE other = ip
    BY <1>1, <2>1 DEF Dropped
  <2>2. CASE other # ip
    BY <2>2 DEF Dropped, SameUse
  <2>3. QED  BY <2>1, <2>2
<1>3. QED  BY <1>2 DEF OneSlot

LEMMA DroppedGrows ==
  ASSUME NEW s, Typed(s), NEW t, Grew(s, t), NEW ip \in Slots, Refs(t, ip) >= Refs(s, ip) + 1,
         NEW u, Dropped(t, u, ip)
  PROVE  Grew(s, u)
<1>1. Typed(t) /\ OneSlot(u)
  BY DroppedOneSlot DEF Grew
<1>2. \A other \in Slots : Refs(s, other) \in Nat /\ Refs(t, other) \in Nat
  BY <1>1, RefIs
<1>3. ASSUME NEW other \in Slots
      PROVE  /\ Refs(u, other) >= Refs(s, other)
             /\ u.icache[other].inum = t.icache[other].inum
             /\ Busy(u.icache[other]) => Busy(t.icache[other])
  <2>1. CASE other = ip
    BY <1>2, <2>1 DEF Dropped, Refs
  <2>2. CASE other # ip
    BY <2>2 DEF Dropped, SameUse, Refs, Grew, Busy
  <2>3. QED  BY <2>1, <2>2
<1>4. Typed(u) /\ u.ftable = s.ftable
  BY DEF Grew, Dropped
<1>5. QED  BY <1>1, <1>3, <1>4 DEF Grew, Refs

\* One round of the walk.
NameWalked(x, path, parent, k) ==
  LET elem == skipelem(SubSeq(path, k, Len(path)))
      next == dirlookup(x.s, x.ip, elem.name)
  IN  IF x.done THEN x
      ELSE IF x.s.icache[x.ip].type # "dir" THEN [x EXCEPT !.done = TRUE, !.ip = NULL]
      ELSE IF parent /\ elem.path = <<>> THEN [x EXCEPT !.done = TRUE]
      ELSE [s |-> next.s, ip |-> next.r, done |-> next.r = NULL]

WalkEnd(walk, parent) ==
  IF parent /\ ~walk.done THEN Returns(iput(walk.s, walk.ip), NULL) ELSE Returns(walk.s, walk.ip)

Walks(f, s, path, parent, n) ==
  /\ f[0] = WalkStart(s)
  /\ WalkEnd(f[n], parent) = namex(s, path, parent)
  /\ \A k \in 0 .. n - 1 : f[k + 1] = NameWalked(f[k], path, parent, k + 1)

LEMMA WalkIs ==
  ASSUME NEW s, NEW path, NEW parent, NEW n \in Nat, n = Len(path)
  PROVE  \E f : Walks(f, s, path, parent, n)
<1> DEFINE Step(x, k) == NameWalked(x, path, parent, k)
           Is(f, last) == f = [k \in 0 .. last |-> IF k = 0 THEN WalkStart(s) ELSE Step(f[k - 1], k)]
           T == {last \in Nat : \E f : Is(f, last)}
<1>1. T = Nat
  <2> HIDE DEF Step
  <2>1. 0 \in T
    <3>1. Is([k \in 0 .. 0 |-> WalkStart(s)], 0)
      OBVIOUS
    <3>2. QED  BY <3>1
  <2>2. ASSUME NEW last \in Nat, last \in T PROVE last + 1 \in T
    <3>1. PICK f : Is(f, last)
      BY <2>2
    <3> DEFINE g == [k \in 0 .. last + 1 |-> IF k <= last THEN f[k] ELSE Step(f[last], k)]
    <3>2. ASSUME NEW k \in 0 .. last + 1 PROVE g[k] = IF k = 0 THEN WalkStart(s) ELSE Step(g[k - 1], k)
      BY <3>1
    <3> HIDE DEF Is
    <3>3. Is(g, last + 1)
      BY <3>2 DEF Is
    <3>4. QED  BY <3>3
  <2>3. QED
    <3> HIDE DEF T
    <3>1. Nat \subseteq T
      BY <2>1, <2>2, NatSetInduction
    <3>2. QED  BY <3>1 DEF T
<1> DEFINE walked == CHOOSE f : Is(f, n)
<1>2. Is(walked, n)
  BY <1>1
<1>3. namex(s, path, parent) = WalkEnd(walked[n], parent)
  BY DEF namex, NameWalked, WalkEnd, WalkStart
<1> HIDE DEF walked
<1>4. QED
  <2> HIDE DEF Step
  <2>1. walked[0] = WalkStart(s) /\ \A k \in 0 .. n - 1 : walked[k + 1] = Step(walked[k], k + 1)
    BY <1>2
  <2>2. QED  BY <1>3, <2>1 DEF Step, Walks

\* Who walks has a reference to where it is, besides those there were.
Walking(s, x) ==
  /\ Grew(s, x.s) /\ DOMAIN x = {"s", "ip", "done"}
  /\ x.ip # NULL => x.ip \in Slots /\ Refs(x.s, x.ip) >= Refs(s, x.ip) + 1
  /\ ~x.done => x.ip # NULL

LEMMA NameWalkedWalks ==
  ASSUME NEW s, Typed(s), NEW x, Walking(s, x), NEW path, NEW parent, NEW k,
         skipelem(SubSeq(path, k, Len(path))).name \in Name
  PROVE  Walking(s, NameWalked(x, path, parent, k))
<1>1. PICK elem : elem = skipelem(SubSeq(path, k, Len(path)))
  OBVIOUS
<1>2. PICK y : y = NameWalked(x, path, parent, k)
  OBVIOUS
<1>3. PICK next : next = dirlookup(x.s, x.ip, elem.name)
  OBVIOUS
<1>4. \/ y = x
      \/ y = [x EXCEPT !.done = TRUE, !.ip = NULL]
      \/ y = [x EXCEPT !.done = TRUE]
      \/ ~x.done /\ y = [s |-> next.s, ip |-> next.r, done |-> next.r = NULL]
  BY <1>1, <1>2, <1>3 DEF NameWalked
<1>5. Walking(s, y)
  <2>1. CASE y = x
    BY <2>1
  <2>2. CASE y = [x EXCEPT !.done = TRUE, !.ip = NULL]
    BY <2>2 DEF Walking
  <2>3. CASE y = [x EXCEPT !.done = TRUE]
    BY <2>3 DEF Walking
  <2>4. CASE ~x.done /\ y = [s |-> next.s, ip |-> next.r, done |-> next.r = NULL]
    <3>1. x.ip \in Slots /\ Typed(x.s) /\ OneSlot(x.s) /\ Grew(s, x.s)
      BY <2>4 DEF Walking, Grew
    <3>2. Got(x.s, next.s, next.r)
      BY <1>1, <1>3, <3>1, DirlookupGets
    <3>3. /\ Grew(x.s, next.s)
          /\ next.r # NULL => next.r \in Slots /\ Refs(next.s, next.r) = Refs(x.s, next.r) + 1
      BY <3>1, <3>2, GotGrows
    <3>4. Grew(s, next.s)
      BY <3>1, <3>3, GrewMore
    <3>5. ASSUME next.r # NULL PROVE next.r \in Slots /\ Refs(next.s, next.r) >= Refs(s, next.r) + 1
      <4>1. next.r \in Slots /\ Refs(next.s, next.r) = Refs(x.s, next.r) + 1
        BY <3>3, <3>5
      <4>2. Refs(x.s, next.r) \in Nat /\ Refs(s, next.r) \in Nat
        BY <3>1, <4>1, RefIs
      <4>3. Refs(x.s, next.r) >= Refs(s, next.r)
        BY <3>1, <4>1 DEF Grew, Refs
      <4>4. QED  BY <4>1, <4>2, <4>3
    <3>6. y.s = next.s /\ y.ip = next.r /\ y.done = (next.r = NULL) /\ DOMAIN y = {"s", "ip", "done"}
      BY <2>4
    <3>7. QED  BY <3>4, <3>5, <3>6 DEF Walking
  <2>5. QED  BY <1>4, <2>1, <2>2, <2>3, <2>4
<1>6. QED  BY <1>2, <1>5

\* What a path lookup does.
LEMMA NamexGrows ==
  ASSUME NEW s, Typed(s), OneSlot(s), iget(s, ROOTINO).r # NULL,
         NEW path \in Seq(Name), NEW parent \in BOOLEAN
  PROVE  LET call == namex(s, path, parent)
         IN  /\ Grew(s, call.s)
             /\ call.r # NULL => call.r \in Slots /\ Refs(call.s, call.r) >= Refs(s, call.r) + 1
<1>1. PICK n \in Nat : n = Len(path)
  OBVIOUS
<1>2. PICK f : Walks(f, s, path, parent, n)
  BY <1>1, WalkIs
<1> DEFINE T == {k \in 0 .. n : Walking(s, f[k])}
<1>3. 0 \in T
  <2>1. PICK root : root = iget(s, ROOTINO)
    OBVIOUS
  <2>2. Got(s, root.s, root.r) /\ root.r # NULL
    BY <2>1, IgetGets, Sizes
  <2>3. Grew(s, root.s) /\ root.r \in Slots /\ Refs(root.s, root.r) = Refs(s, root.r) + 1
    BY <2>2, GotGrows
  <2>4. Refs(s, root.r) \in Nat
    BY <2>3, RefIs
  <2>5. f[0] = [s |-> root.s, ip |-> root.r, done |-> FALSE]
    BY <1>2, <2>1 DEF Walks, WalkStart
  <2>6. Walking(s, f[0])
    BY <2>2, <2>3, <2>4, <2>5 DEF Walking
  <2>7. QED  BY <1>1, <2>6
<1>4. ASSUME NEW k \in 0 .. n - 1, k \in T PROVE k + 1 \in T
  <2>1. skipelem(SubSeq(path, k + 1, Len(path))).name \in Name
    <3>1. PICK a \in 1 .. Len(path) : a = k + 1
      BY <1>1
    <3>2. PICK q : q = SubSeq(path, a, Len(path))
      OBVIOUS
    <3>3. Len(q) = Len(path) - a + 1 /\ q[1] = path[a]
      BY <3>2
    <3>4. Head(q) = path[a]
      BY <3>3 DEF Head
    <3>5. path[a] \in Name
      OBVIOUS
    <3>6. QED  BY <3>1, <3>2, <3>4, <3>5, DiskAssumption DEF skipelem
  <2>2. Walking(s, NameWalked(f[k], path, parent, k + 1))
    BY <1>4, <2>1, NameWalkedWalks
  <2>3. QED  BY <1>2, <2>2 DEF Walks
<1>5. Walking(s, f[n])
  <2>1. 0 .. n \subseteq T
    <3> HIDE DEF T
    <3> QED  BY <1>3, <1>4, IntervalInduction
  <2>2. QED  BY <2>1
<1>6. PICK x : x = f[n]
  OBVIOUS
<1>7. PICK call : call = namex(s, path, parent)
  OBVIOUS
<1>8. CASE parent /\ ~x.done
  <2>1. x.ip \in Slots /\ Grew(s, x.s) /\ Refs(x.s, x.ip) >= Refs(s, x.ip) + 1
    BY <1>5, <1>6, <1>8 DEF Walking
  <2>2. Typed(x.s) /\ Refs(s, x.ip) \in Nat /\ Refs(x.s, x.ip) \in Nat
    BY <2>1, RefIs DEF Grew
  <2>3. PICK t : t = iput(x.s, x.ip)
    OBVIOUS
  <2>4. Put(x.s, t, x.ip)
    BY <2>1, <2>2, <2>3, IputPuts DEF Refs
  <2>5. Grew(s, t)
    <3>1. CASE t = x.s
      BY <2>1, <3>1
    <3>2. CASE Dropped(x.s, t, x.ip)
      BY <2>1, <3>2, DroppedGrows
    <3>3. QED  BY <2>4, <3>1, <3>2 DEF Put
  <2>6. call.s = t /\ call.r = NULL
    <3>1. call = WalkEnd(x, parent)
      BY <1>2, <1>6, <1>7 DEF Walks
    <3>2. call = Returns(t, NULL)
      BY <1>8, <2>3, <3>1 DEF WalkEnd
    <3>3. QED  BY <3>2 DEF Returns
  <2>7. QED  BY <1>7, <2>5, <2>6
<1>9. CASE ~(parent /\ ~x.done)
  <2>1. call.s = x.s /\ call.r = x.ip
    <3>1. call = WalkEnd(x, parent)
      BY <1>2, <1>6, <1>7 DEF Walks
    <3>2. call = Returns(x.s, x.ip)
      BY <1>9, <3>1 DEF WalkEnd
    <3>3. QED  BY <3>2 DEF Returns
  <2>2. QED  BY <1>5, <1>6, <1>7, <2>1 DEF Walking
<1>10. QED  BY <1>8, <1>9

-----------------------------------------------------------------------------
(***************************************************************************)
(* The file table.                                                         *)
(***************************************************************************)
LEMMA FileTyped ==
  ASSUME NEW s, Typed(s), NEW f \in Files, NEW e \in OFile,
         NEW t, t = [s EXCEPT !.ftable = [s.ftable EXCEPT ![f] = e]]
  PROVE  Typed(t)
  BY DEF Typed, DiskOK

LEMMA FileFields ==
  ASSUME NEW e \in OFile
  PROVE  /\ DOMAIN e = {"ref", "type", "ip", "off", "writable"}
         /\ e.ref \in Nat /\ e.off \in 0 .. MaxSize /\ e.off \in Nat
  BY Sizes DEF OFile

\* Another entry for f, with the inodes left alone.
Filed(s, t, f, e) ==
  /\ Typed(t) /\ t.dinode = s.dinode /\ t.data = s.data /\ t.icache = s.icache
  /\ t.ftable = [s.ftable EXCEPT ![f] = e]

LEMMA EntryFiled ==
  ASSUME NEW s, Typed(s), NEW f \in Files, NEW e \in OFile,
         NEW t, t = [s EXCEPT !.ftable = [s.ftable EXCEPT ![f] = e]]
  PROVE  Filed(s, t, f, e)
<1>1. Typed(t)
  BY FileTyped
<1>2. QED  BY <1>1 DEF Filed, Typed

LEMMA FileallocFiles ==
  ASSUME NEW s, Typed(s), NEW ip \in Slots, NEW writable \in BOOLEAN,
         filealloc(s, ip, writable).r # NULL
  PROVE  LET call == filealloc(s, ip, writable)
         IN  /\ call.r \in Files /\ s.ftable[call.r].ref = 0
             /\ Filed(s, call.s, call.r,
                      [ref |-> 1, type |-> "inode", ip |-> ip, off |-> 0, writable |-> writable])
<1> DEFINE free == {f \in Files : s.ftable[f].ref = 0}
           e == [ref |-> 1, type |-> "inode", ip |-> ip, off |-> 0, writable |-> writable]
<1>1. free # {}
  BY DEF filealloc, Returns
<1>2. PICK f : f = Min(free)
  OBVIOUS
<1>3. f \in free
  <2>1. free \subseteq Nat
    BY Sizes
  <2>2. QED  BY <1>1, <1>2, <2>1, MinIs
<1>4. PICK t : t = [s EXCEPT !.ftable[f] = e]
  OBVIOUS
<1>5. filealloc(s, ip, writable) = Returns(t, f)
  BY <1>1, <1>2, <1>4 DEF filealloc
<1>6. e \in OFile
  BY Sizes DEF OFile
<1> HIDE DEF e
<1>7. t = [s EXCEPT !.ftable = [s.ftable EXCEPT ![f] = e]]
  BY <1>4 DEF Typed
<1>8. Filed(s, t, f, e)
  BY <1>3, <1>6, <1>7, EntryFiled
<1>9. QED  BY <1>3, <1>5, <1>8 DEF Returns, e

LEMMA FiledupFiles ==
  ASSUME NEW s, Typed(s), NEW f \in Files, s.ftable[f].ref > 0
  PROVE  \E e \in OFile : /\ Filed(s, filedup(s, f), f, e)
                         /\ e.ref > 0 /\ e.type = s.ftable[f].type /\ e.ip = s.ftable[f].ip
<1>1. PICK d \in OFile : d = s.ftable[f]
  BY DEF Typed
<1>2. PICK t : t = filedup(s, f)
  OBVIOUS
<1> DEFINE e == [d EXCEPT !.ref = @ + 1]
<1>3. e \in OFile /\ e.ref > 0 /\ e.type = d.type /\ e.ip = d.ip
  BY DEF OFile
<1>4. ~(d.ref < 1)
  BY <1>1, FileFields
<1>5. t = [s EXCEPT !.ftable = [s.ftable EXCEPT ![f] = e]]
  BY <1>1, <1>2, <1>4 DEF filedup, Typed
<1> HIDE DEF e
<1>6. Filed(s, t, f, e)
  BY <1>3, <1>5, EntryFiled
<1>7. QED  BY <1>1, <1>2, <1>3, <1>6

\* The last reference to an open file gives its inode back.
LEMMA FilecloseFiles ==
  ASSUME NEW s, Typed(s), NEW f \in Files, s.ftable[f].ref > 0, s.ftable[f].type = "inode"
  PROVE  \/ \E e \in OFile : /\ Filed(s, fileclose(s, f), f, e)
                            /\ e.ref > 0 /\ e.type = s.ftable[f].type /\ e.ip = s.ftable[f].ip
         \/ \E closed : /\ Filed(s, closed, f, NoFileOpen)
                        /\ fileclose(s, f) = iput(closed, s.ftable[f].ip)
<1>1. PICK d \in OFile : d = s.ftable[f]
  BY DEF Typed
<1>2. d.ref \in Nat /\ ~(d.ref < 1)
  BY <1>1, FileFields
<1>3. CASE d.ref > 1
  <2>1. PICK t : t = fileclose(s, f)
    OBVIOUS
  <2>2. PICK n \in Nat : n = d.ref - 1 /\ n > 0
    BY <1>2, <1>3
  <2> DEFINE e == [d EXCEPT !.ref = n]
  <2>3. e \in OFile /\ e.ref > 0 /\ e.type = d.type /\ e.ip = d.ip
    BY <2>2 DEF OFile
  <2>4. t = [s EXCEPT !.ftable = [s.ftable EXCEPT ![f] = e]]
    BY <1>1, <1>2, <1>3, <2>1, <2>2 DEF fileclose, Typed
  <2> HIDE DEF e
  <2>5. Filed(s, t, f, e)
    BY <2>3, <2>4, EntryFiled
  <2>6. QED  BY <1>1, <2>1, <2>3, <2>5
<1>4. CASE ~(d.ref > 1)
  <2>1. PICK t : t = [s EXCEPT !.ftable[f] = NoFileOpen]
    OBVIOUS
  <2>2. fileclose(s, f) = iput(t, d.ip)
    BY <1>1, <1>2, <1>4, <2>1 DEF fileclose
  <2>3. t = [s EXCEPT !.ftable = [s.ftable EXCEPT ![f] = NoFileOpen]]
    BY <2>1 DEF Typed
  <2>4. NoFileOpen \in OFile
    BY Sizes DEF NoFileOpen, OFile
  <2>5. Filed(s, t, f, NoFileOpen)
    BY <2>3, <2>4, EntryFiled
  <2>6. QED  BY <1>1, <2>2, <2>5
<1>5. QED  BY <1>3, <1>4

\* The offset moves within what a file can hold.
LEMMA MovedHolds ==
  ASSUME NEW call, Typed(call.s), NEW f \in Files, call.r \in Int,
         call.r > 0 => call.s.ftable[f].off + call.r <= MaxSize
  PROVE  Holds(call.s, Moved(call, f), {})
<1>1. PICK s : s = call.s
  OBVIOUS
<1>2. PICK e \in OFile : e = s.ftable[f]
  BY <1>1 DEF Typed
<1>3. CASE ~(call.r > 0)
  BY <1>1, <1>3, KeepsAll, KeepsHolds DEF Moved
<1>4. CASE call.r > 0
  <2>1. PICK off \in 0 .. MaxSize : off = e.off + call.r
    BY <1>1, <1>2, <1>4, FileFields, Sizes
  <2> DEFINE g == [e EXCEPT !.off = off]
  <2>2. PICK t : t = Moved(call, f)
    OBVIOUS
  <2>3. t = [s EXCEPT !.ftable = [s.ftable EXCEPT ![f] = g]]
    BY <1>1, <1>2, <1>4, <2>1, <2>2 DEF Moved, Typed
  <2>4. g \in OFile /\ SameFile(e, g)
    BY DEF OFile, SameFile
  <2> HIDE DEF g
  <2>5. Filed(s, t, f, g)
    BY <1>1, <2>3, <2>4, EntryFiled
  <2>6. Holds(s, t, {})
    BY <1>1, <1>2, <2>4, <2>5 DEF Filed, Holds, SameFile, Typed
  <2>7. QED  BY <1>1, <2>2, <2>6
<1>5. QED  BY <1>3, <1>4

\* A file's inode is locked, used, and unlocked again.
LEMMA UnderLockHolds ==
  ASSUME NEW s, Typed(s), NEW ip \in Slots, s.icache[ip].ref > 0, NEW f \in Files,
         NEW call, Keeps(ilock(s, ip), call.s), call.r \in Int,
         call.r > 0 => s.ftable[f].off + call.r <= MaxSize
  PROVE  Holds(s, iunlock(Moved(call, f), ip), {})
<1>1. PICK locked : locked = ilock(s, ip)
  OBVIOUS
<1>2. Flagged(s, locked, ip)
  BY <1>1, IlockFlags
<1>3. Holds(s, locked, {ip}) /\ Holds(locked, call.s, {ip})
  BY <1>1, <1>2, FlaggedHolds, KeepsHolds
<1>4. Typed(call.s) /\ call.s.ftable = s.ftable
  BY <1>1, <1>2 DEF Flagged, Keeps
<1>5. PICK moved : moved = Moved(call, f)
  OBVIOUS
<1>6. Holds(call.s, moved, {})
  BY <1>4, <1>5, MovedHolds
<1>7. Holds(call.s, moved, {ip})
  BY <1>6 DEF Holds
<1>8. Holds(s, moved, {ip})
  BY <1>3, <1>7, HoldsMore
<1>9. Typed(moved) /\ moved.icache[ip].ref > 0
  BY <1>8 DEF Holds
<1>10. PICK t : t = iunlock(moved, ip)
  OBVIOUS
<1>11. Flagged(moved, t, ip) /\ ~Busy(t.icache[ip])
  BY <1>9, <1>10, IunlockFlags
<1>12. Holds(s, t, {ip})
  BY <1>8, <1>11, FlaggedHolds, HoldsMore
<1>13. Holds(s, t, {})
  BY <1>11, <1>12, HoldsUnlocked
<1>14. QED  BY <1>5, <1>10, <1>13

LEMMA FilestatHolds ==
  ASSUME NEW s, Typed(s), NEW f \in Files, s.ftable[f].ip \in Slots,
         s.icache[s.ftable[f].ip].ref > 0
  PROVE  Holds(s, filestat(s, f), {})
<1>1. PICK ip \in Slots : ip = s.ftable[f].ip
  OBVIOUS
<1>2. PICK locked : locked = ilock(s, ip)
  OBVIOUS
<1>3. Flagged(s, locked, ip)
  BY <1>1, <1>2, IlockFlags
<1>4. Typed(locked) /\ locked.icache[ip].ref > 0
  BY <1>1, <1>3 DEF Flagged
<1>5. PICK t : t = iunlock(locked, ip)
  OBVIOUS
<1>6. Flagged(locked, t, ip) /\ ~Busy(t.icache[ip])
  BY <1>4, <1>5, IunlockFlags
<1>7. Holds(s, t, {ip})
  BY <1>3, <1>6, FlaggedHolds, HoldsMore
<1>8. Holds(s, t, {}) /\ Holds(s, s, {})
  BY <1>6, <1>7, HoldsUnlocked, KeepsAll, KeepsHolds
<1>9. QED  BY <1>1, <1>2, <1>5, <1>8 DEF filestat

LEMMA FilereadHolds ==
  ASSUME NEW s, Typed(s), NEW f \in Files, s.ftable[f].ip \in Slots,
         s.icache[s.ftable[f].ip].ref > 0, NEW n \in Nat
  PROVE  Holds(s, fileread(s, f, n), {})
<1>1. PICK ip \in Slots : ip = s.ftable[f].ip
  OBVIOUS
<1>2. PICK off \in Nat : off = s.ftable[f].off
  BY FileFields DEF Typed
<1>3. PICK locked : locked = ilock(s, ip)
  OBVIOUS
<1>4. Flagged(s, locked, ip) /\ Typed(locked)
  BY <1>1, <1>3, IlockFlags DEF Flagged
<1>5. PICK read : read = readi(locked, ip, off, n)
  OBVIOUS
<1>6. Keeps(locked, read.s) /\ read.r \in Int /\ (read.r > 0 => off + read.r <= MaxSize)
  <2>1. CASE Unreadable(locked, ip, off, n)
    BY <1>4, <1>5, <2>1, ReadiRefuses, LeavesKeeps
  <2>2. CASE ~Unreadable(locked, ip, off, n)
    <3>1. PICK size \in 0 .. MaxSize : size = locked.icache[ip].size
      BY <1>4, CNodeFields DEF Typed
    <3>2. Leaves(locked, read.s) /\ read.r \in Nat /\ off + read.r <= size
      BY <1>4, <1>5, <2>2, <3>1, ReadiReads
    <3>3. QED  BY <3>1, <3>2, Sizes, LeavesKeeps
  <2>3. QED  BY <2>1, <2>2
<1>7. Holds(s, iunlock(Moved(read, f), ip), {})
  BY <1>1, <1>2, <1>3, <1>6, UnderLockHolds
<1>8. CASE s.ftable[f].type # "inode"
  <2>1. fileread(s, f, n) = s
    BY <1>8 DEF fileread
  <2>2. QED  BY <2>1, KeepsAll, KeepsHolds
<1>9. CASE s.ftable[f].type = "inode"
  <2>1. fileread(s, f, n) = iunlock(Moved(read, f), ip)
    BY <1>1, <1>2, <1>3, <1>5, <1>9 DEF fileread
  <2>2. QED  BY <1>7, <2>1
<1>10. QED  BY <1>8, <1>9

\* How much filewrite writes at a time, and one round of its loop.
MaxChunk == ((LOGSIZE - 1 - 1 - 2) \div 2) * BSIZE

ChunkWritten(x, ip, f, n, cell) ==
  LET n1    == IF n - x.i > MaxChunk THEN MaxChunk ELSE n - x.i
      write == writei(ilock(x.s, ip), ip, x.s.ftable[f].off, n1, cell)
  IN  IF x.i = n \/ x.failed THEN x
      ELSE [s |-> iunlock(Moved(write, f), ip), i |-> x.i + n1, failed |-> write.r # n1]

ChunkStart(s) == [s |-> s, i |-> 0, failed |-> FALSE]

Chunks(g, s, ip, f, n, cell) ==
  /\ g[0] = ChunkStart(s)
  /\ ~(~s.ftable[f].writable \/ s.ftable[f].type # "inode") => filewrite(s, f, n, cell) = g[n].s
  /\ \A k \in 0 .. n - 1 : g[k + 1] = ChunkWritten(g[k], ip, f, n, cell)

LEMMA ChunksIs ==
  ASSUME NEW s, NEW f, NEW n \in Nat, NEW cell
  PROVE  \E g : Chunks(g, s, s.ftable[f].ip, f, n, cell)
<1> DEFINE Step(x, k) == ChunkWritten(x, s.ftable[f].ip, f, n, cell)
           Is(h, last) == h = [k \in 0 .. last |-> IF k = 0 THEN ChunkStart(s) ELSE Step(h[k - 1], k)]
           T == {last \in Nat : \E h : Is(h, last)}
<1>1. T = Nat
  <2> HIDE DEF Step
  <2>1. 0 \in T
    <3>1. Is([k \in 0 .. 0 |-> ChunkStart(s)], 0)
      OBVIOUS
    <3>2. QED  BY <3>1
  <2>2. ASSUME NEW last \in Nat, last \in T PROVE last + 1 \in T
    <3>1. PICK h : Is(h, last)
      BY <2>2
    <3> DEFINE g == [k \in 0 .. last + 1 |-> IF k <= last THEN h[k] ELSE Step(h[last], k)]
    <3>2. ASSUME NEW k \in 0 .. last + 1 PROVE g[k] = IF k = 0 THEN ChunkStart(s) ELSE Step(g[k - 1], k)
      BY <3>1
    <3> HIDE DEF Is
    <3>3. Is(g, last + 1)
      BY <3>2 DEF Is
    <3>4. QED  BY <3>3
  <2>3. QED
    <3> HIDE DEF T
    <3>1. Nat \subseteq T
      BY <2>1, <2>2, NatSetInduction
    <3>2. QED  BY <3>1 DEF T
<1> DEFINE chunks == CHOOSE h : Is(h, n)
<1>2. Is(chunks, n)
  BY <1>1
<1>3. ~(~s.ftable[f].writable \/ s.ftable[f].type # "inode") => filewrite(s, f, n, cell) = chunks[n].s
  BY DEF filewrite, ChunkWritten, ChunkStart, MaxChunk
<1> HIDE DEF chunks
<1>4. QED
  <2> HIDE DEF Step
  <2>1. chunks[0] = ChunkStart(s) /\ \A k \in 0 .. n - 1 : chunks[k + 1] = Step(chunks[k], k + 1)
    BY <1>2
  <2>2. QED  BY <1>3, <2>1 DEF Step, Chunks

LEMMA MaxChunkIs == MaxChunk \in Nat
<1>1. PICK l \in Nat : LOGSIZE = l + 6
  <2>1. LOGSIZE \in Nat /\ LOGSIZE >= 6
    BY FileSystemAssumption
  <2>2. LOGSIZE - 6 \in Nat /\ LOGSIZE = (LOGSIZE - 6) + 6
    BY <2>1
  <2>3. QED  BY <2>2
<1>2. LOGSIZE - 1 - 1 - 2 \in Nat
  BY <1>1
<1>3. (LOGSIZE - 1 - 1 - 2) \div 2 \in Nat
  BY <1>2
<1>4. QED  BY <1>3, Sizes DEF MaxChunk

LEMMA ChunkHolds ==
  ASSUME NEW s, Typed(s), NEW f \in Files, NEW ip \in Slots, s.icache[ip].ref > 0,
         NEW n1 \in Nat, NEW cell \in Stored,
         NEW write, write = writei(ilock(s, ip), ip, s.ftable[f].off, n1, cell)
  PROVE  Holds(s, iunlock(Moved(write, f), ip), {})
<1>1. PICK off \in Nat : off = s.ftable[f].off
  BY FileFields DEF Typed
<1>2. PICK locked : locked = ilock(s, ip)
  OBVIOUS
<1>3. Flagged(s, locked, ip) /\ Typed(locked)
  BY <1>2, IlockFlags DEF Flagged
<1>4. /\ Keeps(locked, write.s) /\ write.r \in {-1, n1}
      /\ write.r = n1 => off + n1 <= MaxSize
  BY <1>1, <1>2, <1>3, WriteiKeeps
<1>5. write.r \in Int /\ (write.r > 0 => s.ftable[f].off + write.r <= MaxSize)
  BY <1>1, <1>4
<1>6. QED  BY <1>2, <1>4, <1>5, UnderLockHolds

LEMMA FilewriteHolds ==
  ASSUME NEW s, Typed(s), NEW f \in Files, s.ftable[f].ip \in Slots,
         s.icache[s.ftable[f].ip].ref > 0, NEW n \in Nat, NEW cell \in Stored
  PROVE  Holds(s, filewrite(s, f, n, cell), {})
<1>1. PICK ip \in Slots : ip = s.ftable[f].ip
  OBVIOUS
<1>2. PICK g : Chunks(g, s, ip, f, n, cell)
  BY <1>1, ChunksIs
<1>3. MaxChunk \in Nat
  BY MaxChunkIs
<1> DEFINE T == {k \in 0 .. n : Holds(s, g[k].s, {}) /\ g[k].i \in 0 .. n}
<1>4. 0 \in T
  BY <1>2, KeepsAll, KeepsHolds DEF Chunks, ChunkStart
<1>5. ASSUME NEW k \in 0 .. n - 1, k \in T PROVE k + 1 \in T
  <2>1. PICK x : x = g[k]
    OBVIOUS
  <2>2. Holds(s, x.s, {}) /\ x.i \in 0 .. n
    BY <1>5, <2>1
  <2>3. Typed(x.s) /\ x.s.icache[ip].ref > 0
    BY <1>1, <2>2 DEF Holds
  <2>4. PICK n1 \in 0 .. n - x.i : n1 = IF n - x.i > MaxChunk THEN MaxChunk ELSE n - x.i
    BY <1>3, <2>2
  <2>5. PICK write : write = writei(ilock(x.s, ip), ip, x.s.ftable[f].off, n1, cell)
    OBVIOUS
  <2>6. PICK t : t = iunlock(Moved(write, f), ip)
    OBVIOUS
  <2>7. Holds(x.s, t, {})
    BY <2>2, <2>3, <2>4, <2>5, <2>6, ChunkHolds
  <2>8. Holds(s, t, {})
    BY <2>2, <2>7, HoldsMore
  <2>9. g[k + 1] = IF x.i = n \/ x.failed THEN x
                   ELSE [s |-> t, i |-> x.i + n1, failed |-> write.r # n1]
    BY <1>2, <2>1, <2>4, <2>5, <2>6 DEF Chunks, ChunkWritten
  <2>10. x.i + n1 \in 0 .. n
    BY <2>2, <2>4
  <2>11. Holds(s, g[k + 1].s, {}) /\ g[k + 1].i \in 0 .. n
    <3>1. CASE x.i = n \/ x.failed
      <4>1. g[k + 1] = x
        BY <2>9, <3>1
      <4>2. QED  BY <2>2, <4>1
    <3>2. CASE ~(x.i = n \/ x.failed)
      <4>1. g[k + 1].s = t /\ g[k + 1].i = x.i + n1
        BY <2>9, <3>2
      <4>2. QED  BY <2>8, <2>10, <4>1
    <3>3. QED  BY <3>1, <3>2
  <2>12. QED  BY <2>11
<1>6. 0 .. n \subseteq T
  <2> HIDE DEF T
  <2> QED  BY <1>4, <1>5, IntervalInduction
<1>7. Holds(s, g[n].s, {}) /\ Holds(s, s, {})
  BY <1>6, KeepsAll, KeepsHolds
<1>8. filewrite(s, f, n, cell) \in {s, g[n].s}
  <2>1. CASE ~s.ftable[f].writable \/ s.ftable[f].type # "inode"
    BY <2>1 DEF filewrite
  <2>2. CASE ~(~s.ftable[f].writable \/ s.ftable[f].type # "inode")
    BY <1>2, <2>2 DEF Chunks
  <2>3. QED  BY <2>1, <2>2
<1>9. QED  BY <1>7, <1>8

-----------------------------------------------------------------------------
(***************************************************************************)
(* The disk that mkfs makes.  Until the end it may have given out blocks   *)
(* that the disk does not have, and sizes no file can have; Fits says that *)
(* it did not.                                                             *)
(***************************************************************************)
Numbers(m) == Blocks \cup 0 .. m.freeblock - 1

CellOf(B) ==
  {c \in [num : B, name : Name \cup {"", "data"}] : c.name \in Name => c.num \in Inodes \cup {0}}

NodeOf(B) == [type : Types, nlink : Nat, size : Nat, addrs : [0 .. NDIRECT -> B]]

ImageOK(m) ==
  /\ DOMAIN m = {"used", "dinode", "data", "freeinode", "freeblock"}
  /\ m.freeinode \in Nat /\ m.freeblock \in Nat \ {0}
  /\ m.dinode \in [Inodes -> NodeOf(Numbers(m))]
  /\ m.data \in [Blocks -> [InBlock -> CellOf(Numbers(m))]]

LEMMA StoredIs == Stored = CellOf(Blocks)
  BY DEF Stored, CellOf

LEMMA NodeFields ==
  ASSUME NEW B, NEW d \in NodeOf(B)
  PROVE  /\ DOMAIN d = {"type", "nlink", "size", "addrs"}
         /\ d.type \in Types /\ d.nlink \in Nat /\ d.size \in Nat /\ d.addrs \in [0 .. NDIRECT -> B]
  BY DEF NodeOf

\* One block more has been given out.
LEMMA NextBlock ==
  ASSUME NEW m, ImageOK(m)
  PROVE  LET n == [m EXCEPT !.freeblock = @ + 1]
         IN  ImageOK(n) /\ m.freeblock \in Numbers(n)
<1>1. PICK n : n = [m EXCEPT !.freeblock = @ + 1]
  OBVIOUS
<1>2. /\ DOMAIN n = DOMAIN m /\ n.freeinode = m.freeinode /\ n.freeblock = m.freeblock + 1
      /\ n.dinode = m.dinode /\ n.data = m.data
  BY <1>1 DEF ImageOK
<1>3. Numbers(m) \subseteq Numbers(n) /\ m.freeblock \in Numbers(n) /\ n.freeblock \in Nat \ {0}
  BY <1>2 DEF ImageOK, Numbers
<1>4. CellOf(Numbers(m)) \subseteq CellOf(Numbers(n))
  BY <1>3 DEF CellOf
<1>5. NodeOf(Numbers(m)) \subseteq NodeOf(Numbers(n))
  BY <1>3 DEF NodeOf
<1>6. n.dinode \in [Inodes -> NodeOf(Numbers(n))]
  BY <1>2, <1>5 DEF ImageOK
<1>7. [InBlock -> CellOf(Numbers(m))] \subseteq [InBlock -> CellOf(Numbers(n))]
  BY <1>4
<1>8. n.data \in [Blocks -> [InBlock -> CellOf(Numbers(n))]]
  BY <1>2, <1>7 DEF ImageOK
<1>9. ImageOK(n)
  BY <1>2, <1>3, <1>6, <1>8 DEF ImageOK
<1>10. QED  BY <1>1, <1>3, <1>9

\* Another inode or another cell.
LEMMA NodeImage ==
  ASSUME NEW m, ImageOK(m), NEW i, NEW d, i \in Inodes => d \in NodeOf(Numbers(m)),
         NEW n, n = [m EXCEPT !.dinode = [m.dinode EXCEPT ![i] = d]]
  PROVE  ImageOK(n) /\ n.freeinode = m.freeinode /\ n.freeblock = m.freeblock
<1>1. /\ DOMAIN n = DOMAIN m /\ n.freeinode = m.freeinode /\ n.freeblock = m.freeblock
      /\ n.dinode = [m.dinode EXCEPT ![i] = d] /\ n.data = m.data
  BY DEF ImageOK
<1>2. Numbers(n) = Numbers(m)
  BY <1>1 DEF Numbers
<1>3. n.dinode \in [Inodes -> NodeOf(Numbers(m))]
  BY <1>1 DEF ImageOK
<1>4. QED  BY <1>1, <1>2, <1>3 DEF ImageOK

LEMMA CellImage ==
  ASSUME NEW m, ImageOK(m), NEW b, NEW o, NEW cell \in CellOf(Numbers(m)),
         NEW n, n = [m EXCEPT !.data[b][o] = cell]
  PROVE  ImageOK(n) /\ n.freeinode = m.freeinode /\ n.freeblock = m.freeblock /\ n.dinode = m.dinode
<1> DEFINE block == [m.data[b] EXCEPT ![o] = cell]
<1>1. /\ DOMAIN n = DOMAIN m /\ n.freeinode = m.freeinode /\ n.freeblock = m.freeblock
      /\ n.dinode = m.dinode /\ n.data = [m.data EXCEPT ![b] = block]
  BY DEF ImageOK
<1>2. Numbers(n) = Numbers(m)
  BY <1>1 DEF Numbers
<1>3. b \in Blocks => block \in [InBlock -> CellOf(Numbers(m))]
  BY DEF ImageOK
<1> HIDE DEF block
<1>4. n.data \in [Blocks -> [InBlock -> CellOf(Numbers(m))]]
  BY <1>1, <1>3 DEF ImageOK
<1>5. QED  BY <1>1, <1>2, <1>4 DEF ImageOK

\* What an allocation does to the image: a block of the file's, or a table's.
AddressAdded(m, i, n) ==
  IF rinode(m, i).addrs[n] # 0 THEN m
  ELSE [m EXCEPT !.dinode[i].addrs[n] = m.freeblock, !.freeblock = @ + 1]

EntryAdded(m, b, n) ==
  IF m.data[b][n].num # 0 THEN m
  ELSE [m EXCEPT !.data[b][n] = Address(m.freeblock), !.freeblock = @ + 1]

LEMMA AddressAddedOK ==
  ASSUME NEW m, ImageOK(m), NEW i \in Inodes, NEW n
  PROVE  ImageOK(AddressAdded(m, i, n)) /\ AddressAdded(m, i, n).freeinode = m.freeinode
<1>1. CASE rinode(m, i).addrs[n] # 0
  BY <1>1 DEF AddressAdded
<1>2. CASE rinode(m, i).addrs[n] = 0
  <2>1. PICK u : u = AddressAdded(m, i, n)
    OBVIOUS
  <2>2. PICK t : t = [m EXCEPT !.freeblock = @ + 1]
    OBVIOUS
  <2>3. ImageOK(t) /\ m.freeblock \in Numbers(t)
    BY <2>2, NextBlock
  <2>4. t.dinode = m.dinode /\ t.freeinode = m.freeinode
    BY <2>2 DEF ImageOK
  <2>5. PICK d \in NodeOf(Numbers(t)) : d = t.dinode[i]
    BY <2>3 DEF ImageOK
  <2> DEFINE e == [d EXCEPT !.addrs[n] = m.freeblock]
  <2>6. u = [t EXCEPT !.dinode = [t.dinode EXCEPT ![i] = e]]
    BY <1>2, <2>1, <2>2, <2>4, <2>5 DEF AddressAdded, ImageOK
  <2>7. e \in NodeOf(Numbers(t))
    BY <2>3 DEF NodeOf
  <2> HIDE DEF e
  <2>8. ImageOK(u) /\ u.freeinode = t.freeinode
    BY <2>3, <2>6, <2>7, NodeImage
  <2>9. QED  BY <2>1, <2>4, <2>8
<1>3. QED  BY <1>1, <1>2

LEMMA EntryAddedOK ==
  ASSUME NEW m, ImageOK(m), NEW b, NEW n
  PROVE  ImageOK(EntryAdded(m, b, n)) /\ EntryAdded(m, b, n).freeinode = m.freeinode
<1>1. CASE m.data[b][n].num # 0
  BY <1>1 DEF EntryAdded
<1>2. CASE m.data[b][n].num = 0
  <2>1. PICK u : u = EntryAdded(m, b, n)
    OBVIOUS
  <2>2. PICK t : t = [m EXCEPT !.freeblock = @ + 1]
    OBVIOUS
  <2>3. ImageOK(t) /\ m.freeblock \in Numbers(t)
    BY <2>2, NextBlock
  <2>4. t.data = m.data /\ t.freeinode = m.freeinode
    BY <2>2 DEF ImageOK
  <2>5. PICK cell : cell = Address(m.freeblock)
    OBVIOUS
  <2>6. cell \in CellOf(Numbers(t))
    BY <2>3, <2>5, DiskAssumption DEF Address, CellOf
  <2>7. u = [t EXCEPT !.data[b][n] = cell]
    BY <1>2, <2>1, <2>2, <2>4, <2>5 DEF EntryAdded, ImageOK
  <2>8. ImageOK(u) /\ u.freeinode = t.freeinode
    BY <2>3, <2>6, <2>7, CellImage
  <2>9. QED  BY <2>1, <2>4, <2>8
<1>3. QED  BY <1>1, <1>2

LEMMA BlockAppendedOK ==
  ASSUME NEW m, ImageOK(m), NEW i \in Inodes
  PROVE  ImageOK(BlockAppended(m, i)) /\ BlockAppended(m, i).freeinode = m.freeinode
<1> DEFINE fbn == rinode(m, i).size \div BSIZE
<1>1. BlockAppended(m, i)
        = IF fbn < NDIRECT THEN AddressAdded(m, i, fbn)
          ELSE EntryAdded(AddressAdded(m, i, NDIRECT),
                          rinode(AddressAdded(m, i, NDIRECT), i).addrs[NDIRECT], fbn - NDIRECT)
  BY Zenon DEF BlockAppended, AddressAdded, EntryAdded
<1> HIDE DEF fbn
<1>2. PICK direct : direct = AddressAdded(m, i, fbn)
  OBVIOUS
<1>3. PICK table : table = AddressAdded(m, i, NDIRECT)
  OBVIOUS
<1>4. PICK entry : entry = EntryAdded(table, rinode(table, i).addrs[NDIRECT], fbn - NDIRECT)
  OBVIOUS
<1>5. ImageOK(direct) /\ direct.freeinode = m.freeinode /\ ImageOK(table) /\ table.freeinode = m.freeinode
  BY <1>2, <1>3, AddressAddedOK
<1>6. ImageOK(entry) /\ entry.freeinode = m.freeinode
  BY <1>4, <1>5, EntryAddedOK
<1>7. BlockAppended(m, i) \in {direct, entry}
  BY <1>1, <1>2, <1>3, <1>4
<1>8. QED  BY <1>5, <1>6, <1>7

\* A cell goes to the end of the file.
CellPut(m, i, off, cell) ==
  [m EXCEPT !.data[BlockOf(m, i, off \div BSIZE)][off % BSIZE] = cell, !.dinode[i].size = off + 1]

CellAppended(m, i, cell) == CellPut(BlockAppended(m, i), i, rinode(m, i).size, cell)

Appends(f, m, i, cells, n) ==
  /\ f[0] = m /\ f[n] = iappend(m, i, cells)
  /\ \A k \in 0 .. n - 1 : f[k + 1] = CellAppended(f[k], i, cells[k + 1])

LEMMA CellAppendedOK ==
  ASSUME NEW m, ImageOK(m), NEW i \in Inodes, NEW cell \in Stored
  PROVE  ImageOK(CellAppended(m, i, cell)) /\ CellAppended(m, i, cell).freeinode = m.freeinode
<1>1. PICK off \in Nat : off = rinode(m, i).size
  BY NodeFields DEF ImageOK, rinode
<1>2. PICK t : t = BlockAppended(m, i)
  OBVIOUS
<1>3. ImageOK(t) /\ t.freeinode = m.freeinode
  BY <1>2, BlockAppendedOK
<1>4. PICK b : b = BlockOf(t, i, off \div BSIZE)
  OBVIOUS
<1>5. PICK o : o = off % BSIZE
  OBVIOUS
<1>6. PICK u : u = [t EXCEPT !.data[b][o] = cell]
  OBVIOUS
<1>7. cell \in CellOf(Numbers(t))
  BY StoredIs DEF CellOf, Numbers
<1>8. ImageOK(u) /\ u.freeinode = t.freeinode /\ u.dinode = t.dinode
  <2>1. ImageOK(u)
    BY <1>3, <1>6, <1>7, CellImage
  <2>2. u.freeinode = t.freeinode /\ u.dinode = t.dinode
    BY <1>3, <1>6 DEF ImageOK
  <2>3. QED  BY <2>1, <2>2
<1>9. PICK d \in NodeOf(Numbers(u)) : d = u.dinode[i]
  BY <1>8 DEF ImageOK
<1> DEFINE e == [d EXCEPT !.size = off + 1]
<1>10. PICK v : v = [u EXCEPT !.dinode = [u.dinode EXCEPT ![i] = e]]
  OBVIOUS
<1>11. CellAppended(m, i, cell) = v
  BY <1>1, <1>2, <1>3, <1>4, <1>5, <1>6, <1>8, <1>9, <1>10 DEF CellAppended, CellPut, ImageOK
<1>12. e \in NodeOf(Numbers(u))
  BY DEF NodeOf
<1> HIDE DEF e
<1>13. ImageOK(v) /\ v.freeinode = u.freeinode
  BY <1>8, <1>10, <1>12, NodeImage
<1>14. QED  BY <1>3, <1>8, <1>11, <1>13

LEMMA AppendsIs ==
  ASSUME NEW m, NEW i, NEW cells, NEW n \in Nat, n = Len(cells)
  PROVE  \E f : Appends(f, m, i, cells, n)
<1> DEFINE Step(x, k) == CellAppended(x, i, cells[k])
           Is(f, last) == f = [k \in 0 .. last |-> IF k = 0 THEN m ELSE Step(f[k - 1], k)]
           T == {last \in Nat : \E f : Is(f, last)}
<1>1. T = Nat
  <2> HIDE DEF Step
  <2>1. 0 \in T
    <3>1. Is([k \in 0 .. 0 |-> m], 0)
      OBVIOUS
    <3>2. QED  BY <3>1
  <2>2. ASSUME NEW last \in Nat, last \in T PROVE last + 1 \in T
    <3>1. PICK f : Is(f, last)
      BY <2>2
    <3> DEFINE g == [k \in 0 .. last + 1 |-> IF k <= last THEN f[k] ELSE Step(f[last], k)]
    <3>2. ASSUME NEW k \in 0 .. last + 1 PROVE g[k] = IF k = 0 THEN m ELSE Step(g[k - 1], k)
      BY <3>1
    <3> HIDE DEF Is
    <3>3. Is(g, last + 1)
      BY <3>2 DEF Is
    <3>4. QED  BY <3>3
  <2>3. QED
    <3> HIDE DEF T
    <3>1. Nat \subseteq T
      BY <2>1, <2>2, NatSetInduction
    <3>2. QED  BY <3>1 DEF T
<1> DEFINE appended == CHOOSE f : Is(f, n)
<1>2. Is(appended, n)
  BY <1>1
<1>3. iappend(m, i, cells) = appended[n]
  BY DEF iappend, CellAppended, CellPut
<1> HIDE DEF appended
<1>4. QED
  <2> HIDE DEF Step
  <2>1. appended[0] = m /\ \A k \in 0 .. n - 1 : appended[k + 1] = Step(appended[k], k + 1)
    BY <1>2
  <2>2. QED  BY <1>3, <2>1 DEF Step, Appends

LEMMA IappendOK ==
  ASSUME NEW m, ImageOK(m), NEW i \in Inodes, NEW cells \in Seq(Stored)
  PROVE  ImageOK(iappend(m, i, cells)) /\ iappend(m, i, cells).freeinode = m.freeinode
<1>1. PICK n \in Nat : n = Len(cells)
  OBVIOUS
<1>2. PICK f : Appends(f, m, i, cells, n)
  BY <1>1, AppendsIs
<1> DEFINE T == {k \in 0 .. n : ImageOK(f[k]) /\ f[k].freeinode = m.freeinode}
<1>3. 0 \in T
  BY <1>2 DEF Appends
<1>4. ASSUME NEW k \in 0 .. n - 1, k \in T PROVE k + 1 \in T
  <2>1. cells[k + 1] \in Stored
    BY <1>1
  <2>2. ImageOK(f[k]) /\ f[k].freeinode = m.freeinode /\ f[k + 1] = CellAppended(f[k], i, cells[k + 1])
    BY <1>2, <1>4 DEF Appends
  <2>3. ImageOK(f[k + 1]) /\ f[k + 1].freeinode = m.freeinode
    BY <2>1, <2>2, CellAppendedOK
  <2>4. QED  BY <2>3
<1>5. 0 .. n \subseteq T
  <2> HIDE DEF T
  <2> QED  BY <1>3, <1>4, IntervalInduction
<1>6. QED  BY <1>2, <1>5 DEF Appends

LEMMA MkfsIallocOK ==
  ASSUME NEW m, ImageOK(m), NEW type \in Types
  PROVE  ImageOK(mkfs_ialloc(m, type)) /\ mkfs_ialloc(m, type).freeinode = m.freeinode + 1
<1>1. PICK d : d = [FreeDinode EXCEPT !.type = type, !.nlink = 1]
  OBVIOUS
<1>2. d \in NodeOf(Numbers(m))
  BY <1>1, Sizes DEF FreeDinode, NodeOf, Numbers
<1>3. PICK t : t = [m EXCEPT !.dinode = [m.dinode EXCEPT ![m.freeinode] = d]]
  OBVIOUS
<1>4. ImageOK(t) /\ t.freeinode = m.freeinode
  BY <1>2, <1>3, NodeImage
<1>5. PICK u : u = [t EXCEPT !.freeinode = @ + 1]
  OBVIOUS
<1>6. /\ u.freeinode = t.freeinode + 1 /\ u.freeblock = t.freeblock /\ u.dinode = t.dinode
      /\ u.data = t.data /\ DOMAIN u = DOMAIN t
  BY <1>4, <1>5 DEF ImageOK
<1>7. ImageOK(u)
  <2>1. Numbers(u) = Numbers(t)
    BY <1>6 DEF Numbers
  <2>2. u.freeinode \in Nat
    BY <1>4, <1>6 DEF ImageOK
  <2>3. QED  BY <1>4, <1>6, <2>1, <2>2 DEF ImageOK
<1>8. mkfs_ialloc(m, type) = u
  BY <1>1, <1>3, <1>5 DEF mkfs_ialloc, winode, ImageOK
<1>9. QED  BY <1>4, <1>6, <1>7, <1>8

\* A file and its entry in the root directory.
FileAdded(m, file) ==
  iappend(iappend(mkfs_ialloc(m, "file"), ROOTINO, <<Dirent(file.name, m.freeinode)>>),
          m.freeinode, [k \in 1 .. file.cells |-> Data(m.freeinode)])

LEMMA FileAddedOK ==
  ASSUME NEW m, ImageOK(m), m.freeinode \in Inodes, NEW file \in [name : Name, cells : Nat]
  PROVE  ImageOK(FileAdded(m, file)) /\ FileAdded(m, file).freeinode = m.freeinode + 1
<1>1. PICK i \in Inodes : i = m.freeinode
  OBVIOUS
<1>2. PICK t : t = mkfs_ialloc(m, "file")
  OBVIOUS
<1>3. ImageOK(t) /\ t.freeinode = m.freeinode + 1
  BY <1>2, MkfsIallocOK DEF Types
<1>4. <<Dirent(file.name, i)>> \in Seq(Stored)
  <2>1. Dirent(file.name, i) \in Stored
    BY DiskAssumption, Sizes DEF Dirent, Stored
  <2>2. QED  BY <2>1
<1>5. PICK u : u = iappend(t, ROOTINO, <<Dirent(file.name, i)>>)
  OBVIOUS
<1>6. ImageOK(u) /\ u.freeinode = t.freeinode
  BY <1>3, <1>4, <1>5, IappendOK, Sizes
<1>7. PICK cells : cells = [k \in 1 .. file.cells |-> Data(i)]
  OBVIOUS
<1>8. cells \in Seq(Stored)
  <2>1. Data(i) \in Stored
    BY Sizes DEF Data, Stored
  <2>2. QED  BY <1>7, <2>1
<1>9. ImageOK(iappend(u, i, cells)) /\ iappend(u, i, cells).freeinode = u.freeinode
  BY <1>6, <1>8, IappendOK
<1>10. FileAdded(m, file) = iappend(u, i, cells)
  BY <1>1, <1>2, <1>5, <1>7 DEF FileAdded
<1>11. QED  BY <1>3, <1>6, <1>9, <1>10

\* The empty disk, the root directory, and the files.
EmptyImage ==
  [used |-> {}, dinode |-> [i \in Inodes |-> FreeDinode], data |-> [b \in Blocks |-> ZeroBlock],
   freeinode |-> 1, freeblock |-> nmeta]

RootImage ==
  iappend(mkfs_ialloc(EmptyImage, "dir"), ROOTINO, <<Dirent(".", ROOTINO), Dirent("..", ROOTINO)>>)

DiskOf(m) ==
  LET fixed == mkfs_balloc([m EXCEPT !.dinode[ROOTINO].size = ((@ \div BSIZE) + 1) * BSIZE])
  IN  [used |-> fixed.used, dinode |-> fixed.dinode, data |-> fixed.data]

Adds(f, files, n) ==
  /\ f[0] = RootImage /\ DiskOf(f[n]) = mkfs(files)
  /\ \A k \in 0 .. n - 1 : f[k + 1] = FileAdded(f[k], files[k + 1])

LEMMA AddsIs ==
  ASSUME NEW files, NEW n \in Nat, n = Len(files)
  PROVE  \E f : Adds(f, files, n)
<1> DEFINE Step(x, k) == FileAdded(x, files[k])
           Is(f, last) == f = [k \in 0 .. last |-> IF k = 0 THEN RootImage ELSE Step(f[k - 1], k)]
           T == {last \in Nat : \E f : Is(f, last)}
<1>1. T = Nat
  <2> HIDE DEF Step
  <2>1. 0 \in T
    <3>1. Is([k \in 0 .. 0 |-> RootImage], 0)
      OBVIOUS
    <3>2. QED  BY <3>1
  <2>2. ASSUME NEW last \in Nat, last \in T PROVE last + 1 \in T
    <3>1. PICK f : Is(f, last)
      BY <2>2
    <3> DEFINE g == [k \in 0 .. last + 1 |-> IF k <= last THEN f[k] ELSE Step(f[last], k)]
    <3>2. ASSUME NEW k \in 0 .. last + 1 PROVE g[k] = IF k = 0 THEN RootImage ELSE Step(g[k - 1], k)
      BY <3>1
    <3> HIDE DEF Is
    <3>3. Is(g, last + 1)
      BY <3>2 DEF Is
    <3>4. QED  BY <3>3
  <2>3. QED
    <3> HIDE DEF T
    <3>1. Nat \subseteq T
      BY <2>1, <2>2, NatSetInduction
    <3>2. QED  BY <3>1 DEF T
<1> DEFINE added == CHOOSE f : Is(f, n)
<1>2. Is(added, n)
  BY <1>1
<1>3. mkfs(files) = DiskOf(added[n])
  BY DEF mkfs, DiskOf, FileAdded, RootImage, EmptyImage
<1> HIDE DEF added
<1>4. QED
  <2> HIDE DEF Step
  <2>1. added[0] = RootImage /\ \A k \in 0 .. n - 1 : added[k + 1] = Step(added[k], k + 1)
    BY <1>2
  <2>2. QED  BY <1>3, <2>1 DEF Step, Adds

LEMMA EmptyImageOK == ImageOK(EmptyImage) /\ EmptyImage.freeinode = 1
<1>0. PICK m : m = EmptyImage
  OBVIOUS
<1>1. DOMAIN m = {"used", "dinode", "data", "freeinode", "freeblock"}
  BY <1>0 DEF EmptyImage
<1>2. m.freeinode = 1 /\ m.freeblock = nmeta /\ m.dinode = [i \in Inodes |-> FreeDinode]
  BY <1>0 DEF EmptyImage
<1>3. m.data = [b \in Blocks |-> ZeroBlock]
  BY <1>0 DEF EmptyImage
<1>4. nmeta \in Nat \ {0}
  <2>1. /\ NINODES \in Nat /\ IPB \in Nat \ {0} /\ FSSIZE \in Nat /\ BPB \in Nat \ {0}
    BY DiskAssumption
  <2>2. ninodeblocks \in Nat /\ nbitmap \in Nat
    BY <2>1 DEF ninodeblocks, nbitmap
  <2>3. QED  BY <2>2 DEF nmeta
<1>5. FreeDinode \in NodeOf(Numbers(m))
  BY Sizes DEF FreeDinode, NodeOf, Types, Numbers
<1>6. m.dinode \in [Inodes -> NodeOf(Numbers(m))]
  BY <1>2, <1>5
<1>7. ZeroBlock \in [InBlock -> CellOf(Numbers(m))]
  BY ZeroBlockIs, StoredIs DEF CellOf, Numbers
<1>8. m.data \in [Blocks -> [InBlock -> CellOf(Numbers(m))]]
  BY <1>3, <1>7
<1>9. QED  BY <1>0, <1>1, <1>2, <1>4, <1>6, <1>8 DEF ImageOK

LEMMA RootImageOK == ImageOK(RootImage) /\ RootImage.freeinode = 2
<1>1. PICK m : m = EmptyImage
  OBVIOUS
<1>2. ImageOK(m) /\ m.freeinode = 1
  BY <1>1, EmptyImageOK
<1>3. PICK t : t = mkfs_ialloc(m, "dir")
  OBVIOUS
<1>4. ImageOK(t) /\ t.freeinode = 2
  BY <1>2, <1>3, MkfsIallocOK DEF Types
<1>5. PICK cells : cells = <<Dirent(".", ROOTINO), Dirent("..", ROOTINO)>>
  OBVIOUS
<1>6. cells \in Seq(Stored)
  <2>1. Dirent(".", ROOTINO) \in Stored /\ Dirent("..", ROOTINO) \in Stored
    BY DiskAssumption, Sizes DEF Dirent, Stored
  <2>2. QED  BY <1>5, <2>1
<1>7. ImageOK(iappend(t, ROOTINO, cells)) /\ iappend(t, ROOTINO, cells).freeinode = t.freeinode
  BY <1>4, <1>6, IappendOK, Sizes
<1>8. RootImage = iappend(t, ROOTINO, cells)
  BY <1>1, <1>3, <1>5 DEF RootImage
<1>9. QED  BY <1>4, <1>7, <1>8

\* The disk is the last image, with the root directory's size rounded up.
LEMMA DiskOfIs ==
  ASSUME NEW m, ImageOK(m)
  PROVE  /\ DiskOf(m).used = 0 .. m.freeblock - 1 /\ DiskOf(m).data = m.data
         /\ DiskOf(m).dinode \in [Inodes -> NodeOf(Numbers(m))]
<1>1. PICK d \in NodeOf(Numbers(m)) : d = m.dinode[ROOTINO]
  BY Sizes DEF ImageOK
<1>2. PICK size : size = ((d.size \div BSIZE) + 1) * BSIZE
  OBVIOUS
<1>3. size \in Nat
  <2>1. PICK k \in Nat : k = d.size \div BSIZE
    BY NodeFields, Sizes
  <2>2. QED  BY <1>2, <2>1, Sizes
<1> DEFINE e == [d EXCEPT !.size = size]
<1>4. e \in NodeOf(Numbers(m))
  BY <1>3 DEF NodeOf
<1>5. PICK n : n = [m EXCEPT !.dinode = [m.dinode EXCEPT ![ROOTINO] = e]]
  OBVIOUS
<1>6. n = [m EXCEPT !.dinode[ROOTINO].size = ((@ \div BSIZE) + 1) * BSIZE]
  BY <1>1, <1>2, <1>5 DEF ImageOK
<1> HIDE DEF e
<1>7. n.freeblock = m.freeblock /\ n.data = m.data /\ n.dinode \in [Inodes -> NodeOf(Numbers(m))]
  BY <1>4, <1>5 DEF ImageOK
<1>8. PICK fixed : fixed = mkfs_balloc(n)
  OBVIOUS
<1>9. fixed = [n EXCEPT !.used = 0 .. n.freeblock - 1]
  BY <1>8 DEF mkfs_balloc
<1>10. DOMAIN n = DOMAIN m
  BY <1>5
<1>11. fixed.used = 0 .. m.freeblock - 1 /\ fixed.data = m.data /\ fixed.dinode = n.dinode
  BY <1>7, <1>9, <1>10 DEF ImageOK
<1>12. DiskOf(m) = [used |-> fixed.used, dinode |-> fixed.dinode, data |-> fixed.data]
  BY <1>6, <1>8 DEF DiskOf
<1>13. QED  BY <1>7, <1>11, <1>12

\* Every image on the way is one, with a free inode for the next file.
LEMMA AddsOK ==
  ASSUME NEW files \in Images, NEW n \in Nat, n = Len(files), NEW f, Adds(f, files, n)
  PROVE  /\ \A k \in 0 .. n : ImageOK(f[k]) /\ f[k].freeinode = k + 2
         /\ \A k \in 0 .. n - 1 : k + 2 \in Inodes /\ files[k + 1] \in [name : Name, cells : Nat]
<1>1. files \in Seq([name : Name, cells : Nat]) /\ Len(files) <= NINODES - 2
  BY FileSystemAssumption DEF Fits
<1>2. ASSUME NEW k \in 0 .. n - 1
      PROVE  k + 2 \in Inodes /\ files[k + 1] \in [name : Name, cells : Nat]
  <2>1. k + 2 \in Inodes
    <3>1. NINODES \in Nat
      BY DiskAssumption
    <3>2. QED  BY <1>1, <3>1 DEF Inodes
  <2>2. PICK R : R = [name : Name, cells : Nat]
    OBVIOUS
  <2>3. files \in Seq(R) /\ k + 1 \in 1 .. Len(files)
    BY <1>1, <2>2
  <2>4. files[k + 1] \in R
    BY <2>3
  <2>5. QED  BY <2>1, <2>2, <2>4
<1> DEFINE T == {k \in 0 .. n : ImageOK(f[k]) /\ f[k].freeinode = k + 2}
<1>3. 0 \in T
  BY RootImageOK DEF Adds
<1>4. ASSUME NEW k \in 0 .. n - 1, k \in T PROVE k + 1 \in T
  <2>1. PICK m : m = f[k]
    OBVIOUS
  <2>2. ImageOK(m) /\ m.freeinode = k + 2 /\ m.freeinode \in Inodes
    BY <1>2, <1>4, <2>1
  <2>3. PICK file \in [name : Name, cells : Nat] : file = files[k + 1]
    BY <1>2
  <2>4. ImageOK(FileAdded(m, file)) /\ FileAdded(m, file).freeinode = m.freeinode + 1
    BY <2>2, FileAddedOK
  <2>5. f[k + 1] = FileAdded(m, file)
    BY <2>1, <2>3 DEF Adds
  <2>6. QED  BY <2>2, <2>4, <2>5
<1>5. 0 .. n \subseteq T
  <2> HIDE DEF T
  <2> QED  BY <1>3, <1>4, IntervalInduction
<1>6. QED  BY <1>2, <1>5

\* The disk that mkfs makes is one that the kernel's file system can start from.
LEMMA MkfsOK ==
  ASSUME NEW files \in Images
  PROVE  DiskOK(mkfs(files))
<1>1. /\ mkfs(files).used \subseteq Blocks
      /\ \A i \in Inodes : mkfs(files).dinode[i].size <= MaxSize
  BY FileSystemAssumption DEF Fits, MaxSize
<1>2. PICK n \in Nat : n = Len(files)
  BY FileSystemAssumption DEF Fits
<1>3. PICK f : Adds(f, files, n)
  BY <1>2, AddsIs
<1>4. PICK m : m = f[n]
  OBVIOUS
<1>5. ImageOK(m) /\ mkfs(files) = DiskOf(m)
  BY <1>2, <1>3, <1>4, AddsOK DEF Adds
<1>6. PICK d : d = mkfs(files)
  OBVIOUS
<1>7. d.used = 0 .. m.freeblock - 1 /\ d.data = m.data /\ d.dinode \in [Inodes -> NodeOf(Numbers(m))]
  BY <1>5, <1>6, DiskOfIs
<1>8. Numbers(m) = Blocks
  BY <1>1, <1>6, <1>7 DEF Numbers
<1>9. d.data \in [Blocks -> [InBlock -> Stored]]
  BY <1>5, <1>7, <1>8, StoredIs DEF ImageOK
<1>10. d.dinode \in [Inodes -> DNode]
  <2>1. ASSUME NEW i \in Inodes PROVE d.dinode[i] \in DNode
    <3>1. PICK e \in NodeOf(Blocks) : e = d.dinode[i]
      BY <1>7, <1>8
    <3>2. e.size \in 0 .. MaxSize
      BY <1>1, <1>6, <3>1, NodeFields, Sizes
    <3>3. e \in DNode
      BY <3>2 DEF NodeOf, DNode, Addrs
    <3>4. QED  BY <3>1, <3>3
  <2>2. QED  BY <1>7, <2>1
<1>11. QED  BY <1>1, <1>6, <1>9, <1>10 DEF DiskOK

-----------------------------------------------------------------------------
(***************************************************************************)
(* The inductive invariant, of the state s and the client's references p.  *)
(* Beyond what is to be shown, it says that only the client locks an inode,*)
(* and that it keeps a reference to what it locked: iput may leave a locked*)
(* inode's last reference alone, and would lose it.                        *)
(***************************************************************************)
FilesAt(s, ip) == {f \in Files : s.ftable[f].ref > 0 /\ s.ftable[f].ip = ip}

Due(s, p, ip) == p[ip] + Cardinality(FilesAt(s, ip))

Extra(s, p, ip) == Refs(s, ip) - Due(s, p, ip)

Counted(s, p) == \A ip \in Slots : Refs(s, ip) >= Due(s, p, ip)

BusyHeld(s, p) == \A ip \in Slots : Busy(s.icache[ip]) => p[ip] > 0

OpenOK(s) == \A f \in Files : s.ftable[f].ref > 0 => s.ftable[f].type = "inode" /\ s.ftable[f].ip \in Slots

IInv(s, p) ==
  /\ Typed(s) /\ p \in [Slots -> Nat]
  /\ OneSlot(s) /\ Counted(s, p) /\ BusyHeld(s, p) /\ OpenOK(s)

\* References and pointers go up and down together.
Even(s, p, t, q) == \A ip \in Slots : Extra(t, q, ip) = Extra(s, p, ip)

LEMMA EvenMore ==
  ASSUME NEW s, NEW p, NEW t, NEW q, NEW u, NEW r, Even(s, p, t, q), Even(t, q, u, r)
  PROVE  Even(s, p, u, r)
  BY DEF Even

\* All these numbers are numbers, and an open file counts.
LEMMA Numeric ==
  ASSUME NEW s, Typed(s), NEW p \in [Slots -> Nat], NEW ip \in Slots
  PROVE  /\ p[ip] \in Nat /\ Refs(s, ip) \in Nat /\ Due(s, p, ip) \in Nat /\ Due(s, p, ip) >= p[ip]
         /\ IsFiniteSet(FilesAt(s, ip)) /\ Cardinality(FilesAt(s, ip)) \in Nat
         /\ FilesAt(s, ip) # {} => Due(s, p, ip) >= p[ip] + 1
<1>1. IsFiniteSet(Files)
  BY FileSystemAssumption, FS_Interval DEF Files
<1>2. IsFiniteSet(FilesAt(s, ip))
  BY <1>1, FS_Subset DEF FilesAt
<1>3. PICK n \in Nat : n = Cardinality(FilesAt(s, ip))
  BY <1>2, FS_CardinalityType
<1>4. FilesAt(s, ip) # {} => n # 0
  BY <1>2, <1>3, FS_EmptySet
<1>5. PICK m \in Nat : m = p[ip]
  OBVIOUS
<1>6. Due(s, p, ip) = m + n
  BY <1>3, <1>5 DEF Due
<1>7. QED  BY <1>2, <1>3, <1>4, <1>5, <1>6, RefIs

LEMMA InUse1 ==
  ASSUME NEW s, NEW p, IInv(s, p), NEW ip \in Slots, p[ip] > 0 \/ FilesAt(s, ip) # {}
  PROVE  Refs(s, ip) > 0 /\ s.icache[ip].ref > 0 /\ s.icache[ip].inum \in Inodes
<1>1. Typed(s) /\ p \in [Slots -> Nat] /\ Refs(s, ip) >= Due(s, p, ip)
  BY DEF IInv, Counted
<1>2. Refs(s, ip) > 0
  BY <1>1, Numeric
<1>3. QED  BY <1>1, <1>2 DEF Typed, Refs

\* The files stay as they are, as far as the references go.
LEMMA SameFilesAt ==
  ASSUME NEW s, NEW t, \A f \in Files : SameFile(s.ftable[f], t.ftable[f]), NEW ip
  PROVE  FilesAt(t, ip) = FilesAt(s, ip)
  BY DEF FilesAt, SameFile

\* Steps that neither give nor take references.
LEMMA HoldsInv ==
  ASSUME NEW s, NEW p, IInv(s, p), NEW L, NEW t, Holds(s, t, L), \A ip \in Slots : ip \in L => p[ip] > 0
  PROVE  IInv(t, p) /\ Even(s, p, t, p)
<1>1. \A ip \in Slots : Refs(t, ip) = Refs(s, ip) /\ Due(t, p, ip) = Due(s, p, ip)
  BY SameFilesAt DEF Holds, Refs, Due
<1>2. Counted(t, p) /\ Even(s, p, t, p)
  BY <1>1 DEF IInv, Counted, Even, Extra
<1>3. OneSlot(t)
  BY DEF IInv, OneSlot, Holds
<1>4. BusyHeld(t, p)
  BY DEF IInv, BusyHeld, Holds
<1>5. OpenOK(t)
  BY DEF IInv, OpenOK, Holds, SameFile
<1>6. QED  BY <1>2, <1>3, <1>4, <1>5 DEF IInv, Holds

\* The client gets what the call returns.
Given(p, r) == IF r = NULL THEN p ELSE [p EXCEPT ![r] = @ + 1]

LEMMA GrewInv ==
  ASSUME NEW s, NEW p, IInv(s, p), NEW t, Grew(s, t), NEW r,
         r # NULL => r \in Slots /\ Refs(t, r) >= Refs(s, r) + 1
  PROVE  IInv(t, Given(p, r))
<1>1. PICK q : q = Given(p, r)
  OBVIOUS
<1>2. Typed(s) /\ Typed(t) /\ p \in [Slots -> Nat] /\ q \in [Slots -> Nat]
  BY <1>1 DEF IInv, Grew, Given
<1>3. \A ip \in Slots : FilesAt(t, ip) = FilesAt(s, ip)
  BY DEF Grew, FilesAt
<1>4. ASSUME NEW ip \in Slots PROVE Refs(t, ip) >= Due(t, q, ip) /\ q[ip] >= p[ip]
  <2>1. PICK n \in Nat : n = Cardinality(FilesAt(s, ip))
    BY <1>2, Numeric
  <2>2. PICK m \in Nat : m = p[ip]
    BY <1>2
  <2>3. PICK k \in Nat : k = Refs(s, ip)
    BY <1>2, RefIs
  <2>4. PICK l \in Nat : l = Refs(t, ip)
    BY <1>2, RefIs
  <2>5. k >= m + n /\ l >= k
    BY <2>1, <2>2, <2>3, <2>4 DEF IInv, Counted, Due, Grew, Refs
  <2>6. CASE r = ip
    <3>1. r # NULL /\ q[ip] = m + 1
      BY <1>1, <1>2, <2>2, <2>6, Sizes DEF Given
    <3>2. l >= k + 1
      BY <2>3, <2>4, <2>6, <3>1
    <3>3. Due(t, q, ip) = m + 1 + n
      BY <1>3, <2>1, <3>1 DEF Due
    <3>4. QED  BY <2>2, <2>4, <2>5, <3>1, <3>2, <3>3
  <2>7. CASE r # ip
    <3>1. q[ip] = m
      BY <1>1, <1>2, <2>2, <2>7 DEF Given
    <3>2. Due(t, q, ip) = m + n
      BY <1>3, <2>1, <3>1 DEF Due
    <3>3. QED  BY <2>2, <2>4, <2>5, <3>1, <3>2
  <2>8. QED  BY <2>6, <2>7
<1>5. Counted(t, q)
  BY <1>4 DEF Counted
<1>6. BusyHeld(t, q)
  <2>1. ASSUME NEW ip \in Slots, Busy(t.icache[ip]) PROVE q[ip] > 0
    <3>1. p[ip] > 0
      BY <2>1 DEF IInv, BusyHeld, Grew
    <3>2. QED  BY <1>2, <1>4, <3>1
  <2>2. QED  BY <2>1 DEF BusyHeld
<1>7. OpenOK(t)
  BY DEF IInv, OpenOK, Grew
<1>8. QED  BY <1>1, <1>2, <1>5, <1>6, <1>7 DEF IInv, Grew

LEMMA GotInv ==
  ASSUME NEW s, NEW p, IInv(s, p), NEW t, NEW r, Got(s, t, r)
  PROVE  IInv(t, Given(p, r)) /\ Even(s, p, t, Given(p, r))
<1>1. Typed(s) /\ OneSlot(s) /\ p \in [Slots -> Nat]
  BY DEF IInv
<1>2. Grew(s, t) /\ (r # NULL => r \in Slots /\ Refs(t, r) = Refs(s, r) + 1)
  BY <1>1, GotGrows
<1>3. Typed(t) /\ (r # NULL => Refs(t, r) >= Refs(s, r) + 1)
  BY <1>1, <1>2, RefIs DEF Grew
<1>4. PICK q : q = Given(p, r)
  OBVIOUS
<1>5. IInv(t, q)
  BY <1>2, <1>3, <1>4, GrewInv
<1>6. ASSUME NEW ip \in Slots PROVE Extra(t, q, ip) = Extra(s, p, ip)
  <2>1. PICK n \in Nat : n = Cardinality(FilesAt(s, ip))
    BY <1>1, Numeric
  <2>2. FilesAt(t, ip) = FilesAt(s, ip)
    BY <1>2 DEF Grew, FilesAt
  <2>3. PICK m \in Nat : m = p[ip]
    BY <1>1
  <2>4. PICK k \in Nat : k = Refs(s, ip)
    BY <1>1, RefIs
  <2>5. Extra(s, p, ip) = k - (m + n)
    BY <2>1, <2>3, <2>4 DEF Extra, Due
  <2>6. CASE r = ip
    <3>1. r # NULL /\ q[ip] = m + 1
      BY <1>1, <1>4, <2>3, <2>6, Sizes DEF Given
    <3>2. Refs(t, ip) = k + 1
      BY <1>2, <2>4, <2>6, <3>1
    <3>3. Extra(t, q, ip) = (k + 1) - ((m + 1) + n)
      BY <2>1, <2>2, <3>1, <3>2 DEF Extra, Due
    <3>4. QED  BY <2>5, <3>3
  <2>7. CASE r # ip
    <3>1. q[ip] = m
      BY <1>1, <1>4, <2>3, <2>7 DEF Given
    <3>2. Refs(t, ip) = k
      BY <2>4, <2>7 DEF Got, Leaves, Gained, SameNode, SameUse, Refs
    <3>3. QED  BY <2>1, <2>2, <2>5, <3>1, <3>2 DEF Extra, Due
  <2>8. QED  BY <2>6, <2>7
<1>7. QED  BY <1>4, <1>5, <1>6 DEF Even

\* The client gives a reference back.
Taken(p, ip) == [p EXCEPT ![ip] = @ - 1]

LEMMA PutInv ==
  ASSUME NEW s, NEW p, IInv(s, p), NEW ip \in Slots, p[ip] > 0, Busy(s.icache[ip]) => p[ip] > 1,
         NEW t, Put(s, t, ip)
  PROVE  IInv(t, Taken(p, ip)) /\ Even(s, p, t, Taken(p, ip))
<1>1. Typed(s) /\ p \in [Slots -> Nat] /\ OneSlot(s)
  BY DEF IInv
<1>2. PICK m \in Nat : m = p[ip]
  BY <1>1
<1>3. Refs(s, ip) >= m
  BY <1>1, <1>2, Numeric DEF IInv, Counted
<1>4. Dropped(s, t, ip)
  BY <1>1, <1>2, <1>3, RefIs DEF Put, Refs
<1>5. Typed(t) /\ OneSlot(t)
  BY <1>1, <1>4, DroppedOneSlot DEF Dropped
<1>6. PICK q : q = Taken(p, ip)
  OBVIOUS
<1>7. q \in [Slots -> Nat] /\ q[ip] = m - 1 /\ \A other \in Slots \ {ip} : q[other] = p[other]
  <2>1. m - 1 \in Nat
    BY <1>2
  <2>2. q = [p EXCEPT ![ip] = m - 1]
    BY <1>2, <1>6 DEF Taken
  <2>3. QED  BY <1>1, <2>1, <2>2
<1>8. ASSUME NEW other \in Slots
      PROVE  Extra(t, q, other) = Extra(s, p, other) /\ Refs(t, other) >= Due(t, q, other)
  <2>1. PICK n \in Nat : n = Cardinality(FilesAt(s, other))
    BY <1>1, Numeric
  <2>2. FilesAt(t, other) = FilesAt(s, other)
    BY <1>4 DEF Dropped, FilesAt
  <2>3. PICK k \in Nat : k = Refs(s, other)
    BY <1>1, RefIs
  <2>4. PICK l \in Nat : l = p[other]
    BY <1>1
  <2>5. k >= l + n /\ Extra(s, p, other) = k - (l + n)
    BY <2>1, <2>3, <2>4 DEF IInv, Counted, Extra, Due
  <2>6. CASE other = ip
    <3>1. Refs(t, other) = k - 1 /\ q[other] = l - 1
      BY <1>2, <1>4, <1>7, <2>3, <2>4, <2>6 DEF Dropped, Refs
    <3>2. Extra(t, q, other) = (k - 1) - ((l - 1) + n) /\ Due(t, q, other) = (l - 1) + n
      BY <2>1, <2>2, <3>1 DEF Extra, Due
    <3>3. QED  BY <2>5, <3>1, <3>2
  <2>7. CASE other # ip
    <3>1. Refs(t, other) = k /\ q[other] = l
      BY <1>4, <1>7, <2>3, <2>4, <2>7 DEF Dropped, SameUse, Refs
    <3>2. QED  BY <2>1, <2>2, <2>5, <3>1 DEF Extra, Due
  <2>8. QED  BY <2>6, <2>7
<1>9. BusyHeld(t, q)
  <2>1. ASSUME NEW other \in Slots, Busy(t.icache[other]) PROVE q[other] > 0
    <3>1. Busy(s.icache[other])
      BY <1>4, <2>1 DEF Dropped, SameUse, Busy
    <3>2. p[other] > 0 /\ (other = ip => m > 1)
      BY <1>2, <3>1 DEF IInv, BusyHeld
    <3>3. QED  BY <1>2, <1>7, <3>2
  <2>2. QED  BY <2>1 DEF BusyHeld
<1>10. OpenOK(t)
  BY <1>4 DEF IInv, OpenOK, Dropped
<1>11. QED  BY <1>5, <1>6, <1>7, <1>8, <1>9, <1>10 DEF IInv, Counted, Even

\* A file's entry changes, but neither its inode nor whether it is open.
LEMMA FiledInv ==
  ASSUME NEW s, NEW p, IInv(s, p), NEW f \in Files, s.ftable[f].ref > 0, NEW e \in OFile,
         e.ref > 0, e.type = s.ftable[f].type, e.ip = s.ftable[f].ip, NEW t, Filed(s, t, f, e)
  PROVE  IInv(t, p) /\ Even(s, p, t, p)
<1>1. \A g \in Files : /\ t.ftable[g].ref > 0 <=> s.ftable[g].ref > 0
                       /\ t.ftable[g].type = s.ftable[g].type /\ t.ftable[g].ip = s.ftable[g].ip
  BY DEF IInv, Typed, Filed
<1>2. \A ip \in Slots : Refs(t, ip) = Refs(s, ip) /\ Due(t, p, ip) = Due(s, p, ip)
  <2>1. \A ip \in Slots : FilesAt(t, ip) = FilesAt(s, ip)
    BY <1>1 DEF FilesAt
  <2>2. QED  BY <2>1 DEF Filed, Refs, Due
<1>3. Counted(t, p) /\ Even(s, p, t, p)
  BY <1>2 DEF IInv, Counted, Even, Extra
<1>4. OneSlot(t) /\ BusyHeld(t, p)
  BY DEF IInv, OneSlot, BusyHeld, Filed
<1>5. OpenOK(t)
  BY <1>1 DEF IInv, OpenOK
<1>6. QED  BY <1>3, <1>4, <1>5 DEF IInv, Filed

\* A reference goes from the client to a file.
LEMMA OpenedInv ==
  ASSUME NEW s, NEW p, IInv(s, p), NEW ip \in Slots, p[ip] > 0, Busy(s.icache[ip]) => p[ip] > 1,
         NEW f \in Files, s.ftable[f].ref = 0,
         NEW e \in OFile, e.ref > 0, e.type = "inode", e.ip = ip, NEW t, Filed(s, t, f, e)
  PROVE  IInv(t, Taken(p, ip)) /\ Even(s, p, t, Taken(p, ip))
<1>1. Typed(s) /\ Typed(t) /\ p \in [Slots -> Nat]
  BY DEF IInv, Filed
<1>2. PICK m \in Nat : m = p[ip]
  BY <1>1
<1>3. PICK q : q = Taken(p, ip)
  OBVIOUS
<1>4. q \in [Slots -> Nat] /\ q[ip] = m - 1 /\ \A other \in Slots \ {ip} : q[other] = p[other]
  <2>1. m - 1 \in Nat
    BY <1>2
  <2>2. q = [p EXCEPT ![ip] = m - 1]
    BY <1>2, <1>3 DEF Taken
  <2>3. QED  BY <1>1, <2>1, <2>2
<1>5. /\ t.ftable[f] = e /\ \A g \in Files \ {f} : t.ftable[g] = s.ftable[g]
      /\ t.icache = s.icache
  BY <1>1 DEF Filed, Typed
<1>6. ASSUME NEW other \in Slots PROVE Due(t, q, other) = Due(s, p, other)
  <2>1. PICK A : A = FilesAt(s, other)
    OBVIOUS
  <2>2. IsFiniteSet(A) /\ Cardinality(A) \in Nat /\ f \notin A
    BY <1>1, <2>1, Numeric DEF FilesAt
  <2>3. CASE other = ip
    <3>1. FilesAt(t, other) = A \cup {f}
      BY <1>5, <2>1, <2>3 DEF FilesAt
    <3>2. Cardinality(A \cup {f}) = Cardinality(A) + 1
      BY <2>2, FS_AddElement
    <3>3. Due(t, q, other) = (m - 1) + (Cardinality(A) + 1) /\ Due(s, p, other) = m + Cardinality(A)
      BY <1>2, <1>4, <2>1, <2>3, <3>1, <3>2 DEF Due
    <3>4. QED  BY <2>2, <3>3
  <2>4. CASE other # ip
    <3>1. FilesAt(t, other) = A
      BY <1>5, <2>1, <2>4 DEF FilesAt
    <3>2. QED  BY <1>4, <2>1, <2>4, <3>1 DEF Due
  <2>5. QED  BY <2>3, <2>4
<1>7. Counted(t, q) /\ Even(s, p, t, q)
  BY <1>5, <1>6 DEF IInv, Counted, Even, Extra, Refs
<1>8. BusyHeld(t, q)
  <2>1. ASSUME NEW other \in Slots, Busy(t.icache[other]) PROVE q[other] > 0
    <3>1. p[other] > 0 /\ (other = ip => m > 1)
      BY <1>2, <1>5, <2>1 DEF IInv, BusyHeld
    <3>2. QED  BY <1>2, <1>4, <3>1
  <2>2. QED  BY <2>1 DEF BusyHeld
<1>9. OneSlot(t) /\ OpenOK(t)
  BY <1>5 DEF IInv, OneSlot, OpenOK
<1>10. QED  BY <1>1, <1>3, <1>4, <1>7, <1>8, <1>9 DEF IInv

\* The last one who has a file open gets the file's reference.
LEMMA ClosedInv ==
  ASSUME NEW s, NEW p, IInv(s, p), NEW f \in Files, s.ftable[f].ref > 0,
         NEW ip \in Slots, s.ftable[f].ip = ip, NEW t, Filed(s, t, f, NoFileOpen)
  PROVE  IInv(t, Given(p, ip)) /\ Even(s, p, t, Given(p, ip))
<1>1. Typed(s) /\ Typed(t) /\ p \in [Slots -> Nat]
  BY DEF IInv, Filed
<1>2. PICK m \in Nat : m = p[ip]
  BY <1>1
<1>3. PICK q : q = Given(p, ip)
  OBVIOUS
<1>4. q \in [Slots -> Nat] /\ q[ip] = m + 1 /\ \A other \in Slots \ {ip} : q[other] = p[other]
  BY <1>1, <1>2, <1>3, Sizes DEF Given
<1>5. /\ t.ftable[f] = NoFileOpen /\ \A g \in Files \ {f} : t.ftable[g] = s.ftable[g]
      /\ t.icache = s.icache
  BY <1>1 DEF Filed, Typed
<1>6. ~(NoFileOpen.ref > 0)
  BY DEF NoFileOpen
<1>7. ASSUME NEW other \in Slots PROVE Due(t, q, other) = Due(s, p, other)
  <2>1. PICK A : A = FilesAt(s, other)
    OBVIOUS
  <2>2. IsFiniteSet(A) /\ Cardinality(A) \in Nat
    BY <1>1, <2>1, Numeric
  <2>3. CASE other = ip
    <3>1. FilesAt(t, other) = A \ {f} /\ f \in A
      BY <1>5, <1>6, <2>1, <2>3 DEF FilesAt
    <3>2. Cardinality(A \ {f}) = Cardinality(A) - 1
      BY <2>2, <3>1, FS_RemoveElement
    <3>3. Due(t, q, other) = (m + 1) + (Cardinality(A) - 1) /\ Due(s, p, other) = m + Cardinality(A)
      BY <1>2, <1>4, <2>1, <2>3, <3>1, <3>2 DEF Due
    <3>4. QED  BY <2>2, <3>3
  <2>4. CASE other # ip
    <3>1. FilesAt(t, other) = A
      BY <1>5, <1>6, <2>1, <2>4 DEF FilesAt
    <3>2. QED  BY <1>4, <2>1, <2>4, <3>1 DEF Due
  <2>5. QED  BY <2>3, <2>4
<1>8. Counted(t, q) /\ Even(s, p, t, q)
  BY <1>5, <1>7 DEF IInv, Counted, Even, Extra, Refs
<1>9. BusyHeld(t, q)
  BY <1>1, <1>2, <1>4, <1>5 DEF IInv, BusyHeld
<1>10. OneSlot(t) /\ OpenOK(t)
  BY <1>5, <1>6 DEF IInv, OneSlot, OpenOK
<1>11. QED  BY <1>1, <1>3, <1>4, <1>8, <1>9, <1>10 DEF IInv

-----------------------------------------------------------------------------
(***************************************************************************)
(* The calls.                                                              *)
(***************************************************************************)
Kept == IInv(fs', ptr') /\ Even(fs, ptr, fs', ptr')

LEMMA GetsKeeps ==
  ASSUME IInv(fs, ptr), NEW call, Got(fs, call.s, call.r), Gets(call)
  PROVE  Kept
<1>1. fs' = call.s /\ ptr' = Given(ptr, call.r)
  BY DEF Gets, Given
<1>2. QED  BY <1>1, GotInv DEF Kept

LEMMA HoldsKeeps ==
  ASSUME IInv(fs, ptr), NEW L, Holds(fs, fs', L), \A ip \in Slots : ip \in L => ptr[ip] > 0, ptr' = ptr
  PROVE  Kept
  BY HoldsInv DEF Kept

LEMMA IgetKeeps == ASSUME IInv(fs, ptr), NEW i \in Inodes, Iget(i) PROVE Kept
<1>1. PICK call : call = iget(fs, i)
  OBVIOUS
<1>2. Got(fs, call.s, call.r)
  BY <1>1, IgetGets DEF IInv
<1>3. Gets(call)
  BY <1>1 DEF Iget
<1>4. QED  BY <1>2, <1>3, GetsKeeps

LEMMA IallocKeeps == ASSUME IInv(fs, ptr), NEW type \in Types, Ialloc(type) PROVE Kept
<1>1. PICK call : call = ialloc(fs, type)
  OBVIOUS
<1>2. Got(fs, call.s, call.r)
  BY <1>1, IallocGets DEF IInv
<1>3. Gets(call)
  BY <1>1 DEF Ialloc
<1>4. QED  BY <1>2, <1>3, GetsKeeps

LEMMA IdupKeeps == ASSUME IInv(fs, ptr), NEW ip \in Slots, Idup(ip) PROVE Kept
<1>1. ptr[ip] > 0 /\ fs.icache[ip].ref > 0
  BY InUse1 DEF Idup
<1>2. PICK t : t = idup(fs, ip)
  OBVIOUS
<1>3. Got(fs, t, ip)
  BY <1>1, <1>2, IdupGains DEF IInv, Got
<1>4. PICK call : call = Returns(t, ip)
  OBVIOUS
<1>5. Got(fs, call.s, call.r)
  BY <1>3, <1>4 DEF Returns
<1>6. Gets(call)
  BY <1>2, <1>4 DEF Idup
<1>7. QED  BY <1>5, <1>6, GetsKeeps

LEMMA IlockKeeps == ASSUME IInv(fs, ptr), NEW ip \in Slots, Ilock(ip) PROVE Kept
<1>1. ptr[ip] > 0 /\ fs.icache[ip].ref > 0 /\ fs' = ilock(fs, ip) /\ ptr' = ptr
  BY InUse1 DEF Ilock
<1>2. Holds(fs, fs', {ip})
  BY <1>1, IlockFlags, FlaggedHolds DEF IInv
<1>3. QED  BY <1>1, <1>2, HoldsKeeps

LEMMA IunlockKeeps == ASSUME IInv(fs, ptr), NEW ip \in Slots, Iunlock(ip) PROVE Kept
<1>1. ptr[ip] > 0 /\ fs.icache[ip].ref > 0 /\ fs' = iunlock(fs, ip) /\ ptr' = ptr
  BY InUse1 DEF Iunlock
<1>2. Holds(fs, fs', {ip})
  BY <1>1, IunlockFlags, FlaggedHolds DEF IInv
<1>3. QED  BY <1>1, <1>2, HoldsKeeps

LEMMA IputKeeps == ASSUME IInv(fs, ptr), NEW ip \in Slots, Iput(ip) PROVE Kept
<1>1. ptr[ip] \in Nat
  BY DEF IInv
<1>2. ptr[ip] > 0 /\ (Busy(fs.icache[ip]) => ptr[ip] > 1)
  BY <1>1 DEF Iput, Locked, Busy
<1>3. fs.icache[ip].ref > 0 /\ fs' = iput(fs, ip) /\ ptr' = Taken(ptr, ip)
  BY <1>2, InUse1 DEF Iput, Taken
<1>4. Put(fs, fs', ip)
  BY <1>3, IputPuts DEF IInv
<1>5. QED  BY <1>2, <1>3, <1>4, PutInv DEF Kept

LEMMA IunlockputKeeps == ASSUME IInv(fs, ptr), NEW ip \in Slots, Iunlockput(ip) PROVE Kept
<1>1. ptr[ip] > 0 /\ fs.icache[ip].ref > 0 /\ ptr' = Taken(ptr, ip)
  BY InUse1 DEF Iunlockput, Taken
<1>2. PICK s : s = iunlock(fs, ip)
  OBVIOUS
<1>3. Flagged(fs, s, ip) /\ ~Busy(s.icache[ip])
  BY <1>1, <1>2, IunlockFlags DEF IInv
<1>4. Holds(fs, s, {ip})
  BY <1>3, FlaggedHolds
<1>5. IInv(s, ptr) /\ Even(fs, ptr, s, ptr)
  BY <1>1, <1>4, HoldsInv
<1>6. fs' = iput(s, ip) /\ s.icache[ip].ref > 0
  BY <1>1, <1>2, <1>5, InUse1 DEF Iunlockput, iunlockput
<1>7. Put(s, fs', ip)
  BY <1>5, <1>6, IputPuts DEF IInv
<1>8. IInv(fs', ptr') /\ Even(s, ptr, fs', ptr')
  BY <1>1, <1>3, <1>5, <1>7, PutInv
<1>9. QED  BY <1>5, <1>8, EvenMore DEF Kept

LEMMA SetLinksKeeps == ASSUME IInv(fs, ptr), NEW ip \in Slots, NEW n \in {0, 1}, SetLinks(ip, n) PROVE Kept
<1>1. Holds(fs, fs', {}) /\ ptr' = ptr
  BY SetLinksHolds DEF IInv, SetLinks
<1>2. QED  BY <1>1, HoldsKeeps

LEMMA ReadiKeeps ==
  ASSUME IInv(fs, ptr), NEW ip \in Slots, NEW off \in Nat, NEW n \in Nat, Readi(ip, off, n)
  PROVE  Kept
<1>1. PICK read : read = readi(fs, ip, off, n)
  OBVIOUS
<1>2. Leaves(fs, read.s)
  BY <1>1, ReadiRefuses, ReadiReads DEF IInv
<1>3. Holds(fs, fs', {}) /\ ptr' = ptr
  BY <1>1, <1>2, LeavesKeeps, KeepsHolds DEF Readi
<1>4. QED  BY <1>3, HoldsKeeps

LEMMA DataIs == ASSUME NEW i \in Inodes PROVE Data(i) \in Stored
  BY Sizes DEF Data, Stored

LEMMA WriteiCallKeeps ==
  ASSUME IInv(fs, ptr), NEW ip \in Slots, NEW off \in Nat, NEW n \in Nat, Writei(ip, off, n)
  PROVE  Kept
<1>1. ptr[ip] > 0 /\ ptr' = ptr
  BY DEF Writei
<1>2. PICK cell \in Stored : cell = Data(fs.icache[ip].inum)
  BY <1>1, InUse1, DataIs
<1>3. PICK write : write = writei(fs, ip, off, n, cell)
  OBVIOUS
<1>4. Keeps(fs, write.s)
  BY <1>3, WriteiKeeps DEF IInv
<1>5. fs' = write.s
  BY <1>2, <1>3 DEF Writei
<1>6. Holds(fs, fs', {})
  BY <1>4, <1>5, KeepsHolds
<1>7. QED  BY <1>1, <1>6, HoldsKeeps

LEMMA DirlookupKeeps ==
  ASSUME IInv(fs, ptr), NEW dp \in Slots, NEW name \in Name, Dirlookup(dp, name)
  PROVE  Kept
<1>1. PICK call : call = dirlookup(fs, dp, name)
  OBVIOUS
<1>2. Got(fs, call.s, call.r)
  BY <1>1, DirlookupGets DEF IInv
<1>3. Gets(call)
  BY <1>1 DEF Dirlookup
<1>4. QED  BY <1>2, <1>3, GetsKeeps

LEMMA DirlinkKeeps ==
  ASSUME IInv(fs, ptr), NEW dp \in Slots, NEW name \in Name, NEW ip \in Slots, Dirlink(dp, name, ip)
  PROVE  Kept
<1>1. ptr[ip] > 0 /\ fs.icache[dp].type = "dir" /\ ptr' = ptr
  BY DEF Dirlink
<1>2. PICK i \in Inodes : i = fs.icache[ip].inum
  BY <1>1, InUse1
<1>3. fs' = dirlink(fs, dp, name, i).s
  BY <1>2 DEF Dirlink
<1>4. Holds(fs, fs', {})
  BY <1>1, <1>3, DirlinkHolds DEF IInv
<1>5. QED  BY <1>1, <1>4, HoldsKeeps

\* A path lookup may lose references, but not the client's.
LEMMA NamexKeeps ==
  ASSUME IInv(fs, ptr), CanWalk, NEW path \in Seq(Name), NEW parent \in BOOLEAN,
         Gets(namex(fs, path, parent))
  PROVE  IInv(fs', ptr')
<1>1. PICK call : call = namex(fs, path, parent)
  OBVIOUS
<1>2. iget(fs, ROOTINO).r # NULL
  BY DEF CanWalk
<1>3. /\ Grew(fs, call.s)
      /\ call.r # NULL => call.r \in Slots /\ Refs(call.s, call.r) >= Refs(fs, call.r) + 1
  BY <1>1, <1>2, NamexGrows DEF IInv
<1>4. fs' = call.s /\ ptr' = Given(ptr, call.r)
  BY <1>1 DEF Gets, Given
<1>5. QED  BY <1>3, <1>4, GrewInv

LEMMA LookupKeeps == ASSUME IInv(fs, ptr), Lookup PROVE IInv(fs', ptr')
<1>1. PICK path \in Lookups : Namei(path) \/ Nameiparent(path)
  BY DEF Lookup
<1>2. path \in Seq(Name)
  BY FileSystemAssumption
<1>3. CASE Namei(path)
  BY <1>2, <1>3, NamexKeeps DEF Namei, namei
<1>4. CASE Nameiparent(path)
  BY <1>2, <1>4, NamexKeeps DEF Nameiparent, nameiparent
<1>5. QED  BY <1>1, <1>3, <1>4

LEMMA OpenKeeps ==
  ASSUME IInv(fs, ptr), NEW ip \in Slots, NEW writable \in BOOLEAN, Open(ip, writable)
  PROVE  Kept
<1>1. ptr[ip] \in Nat /\ Typed(fs)
  BY DEF IInv
<1>2. ptr[ip] > 0 /\ (Busy(fs.icache[ip]) => ptr[ip] > 1)
  BY <1>1 DEF Open, Locked, Busy
<1>3. PICK call : call = filealloc(fs, ip, writable)
  OBVIOUS
<1>4. call.r # NULL /\ fs' = call.s /\ ptr' = Taken(ptr, ip)
  BY <1>3 DEF Open, Taken
<1>5. PICK e : e = [ref |-> 1, type |-> "inode", ip |-> ip, off |-> 0, writable |-> writable]
  OBVIOUS
<1>6. call.r \in Files /\ fs.ftable[call.r].ref = 0 /\ Filed(fs, fs', call.r, e)
  BY <1>1, <1>3, <1>4, <1>5, FileallocFiles
<1>7. e \in OFile /\ e.ref > 0 /\ e.type = "inode" /\ e.ip = ip
  BY <1>5, Sizes DEF OFile
<1>8. QED  BY <1>2, <1>4, <1>6, <1>7, OpenedInv DEF Kept

LEMMA FiledupKeeps == ASSUME IInv(fs, ptr), NEW f \in Files, Filedup(f) PROVE Kept
<1>1. fs.ftable[f].ref > 0 /\ fs' = filedup(fs, f) /\ ptr' = ptr
  BY DEF Filedup
<1>2. PICK e \in OFile : /\ Filed(fs, fs', f, e)
                         /\ e.ref > 0 /\ e.type = fs.ftable[f].type /\ e.ip = fs.ftable[f].ip
  BY <1>1, FiledupFiles DEF IInv
<1>3. QED  BY <1>1, <1>2, FiledInv DEF Kept

LEMMA FilecloseKeeps == ASSUME IInv(fs, ptr), NEW f \in Files, Fileclose(f) PROVE Kept
<1>1. fs.ftable[f].ref > 0 /\ fs' = fileclose(fs, f) /\ ptr' = ptr
  BY DEF Fileclose
<1>2. PICK ip \in Slots : ip = fs.ftable[f].ip
  BY <1>1 DEF IInv, OpenOK
<1>3. fs.ftable[f].type = "inode" /\ Typed(fs) /\ ptr \in [Slots -> Nat]
  BY <1>1 DEF IInv, OpenOK
<1>4. CASE \E e \in OFile : /\ Filed(fs, fs', f, e)
                            /\ e.ref > 0 /\ e.type = fs.ftable[f].type /\ e.ip = fs.ftable[f].ip
  BY <1>1, <1>4, FiledInv DEF Kept
<1>5. CASE \E closed : Filed(fs, closed, f, NoFileOpen) /\ fs' = iput(closed, ip)
  <2>1. PICK closed : Filed(fs, closed, f, NoFileOpen) /\ fs' = iput(closed, ip)
    BY <1>5
  <2>2. PICK q : q = Given(ptr, ip)
    OBVIOUS
  <2>3. IInv(closed, q) /\ Even(fs, ptr, closed, q)
    BY <1>1, <1>2, <2>1, <2>2, ClosedInv
  <2>4. PICK m \in Nat : m = ptr[ip]
    BY <1>3
  <2>5. q[ip] = m + 1 /\ Taken(q, ip) = ptr
    <3>1. q = [ptr EXCEPT ![ip] = m + 1]
      BY <2>2, <2>4, Sizes DEF Given
    <3>2. q[ip] = m + 1 /\ q \in [Slots -> Nat] /\ (m + 1) - 1 = m
      BY <1>3, <3>1
    <3>3. Taken(q, ip) = [q EXCEPT ![ip] = m]
      BY <3>2 DEF Taken
    <3>4. Taken(q, ip) = ptr
      BY <1>3, <2>4, <3>1, <3>3
    <3>5. QED  BY <3>2, <3>4
  <2>6. Busy(closed.icache[ip]) => q[ip] > 1
    <3>1. Busy(closed.icache[ip]) => m > 0
      BY <2>1, <2>4 DEF IInv, BusyHeld, Filed
    <3>2. QED  BY <2>5, <3>1
  <2>7. q[ip] > 0 /\ closed.icache[ip].ref > 0
    BY <2>3, <2>5, InUse1
  <2>8. Put(closed, fs', ip)
    BY <2>1, <2>3, <2>7, IputPuts DEF IInv
  <2>9. IInv(fs', Taken(q, ip)) /\ Even(closed, q, fs', Taken(q, ip))
    BY <2>3, <2>6, <2>7, <2>8, PutInv
  <2>10. QED  BY <1>1, <2>3, <2>5, <2>9, EvenMore DEF Kept
<1>6. QED  BY <1>1, <1>2, <1>3, <1>4, <1>5, FilecloseFiles

LEMMA UseFileKeeps ==
  ASSUME IInv(fs, ptr), client.counts \subseteq Nat, NEW f \in Files, UseFile(f)
  PROVE  Kept
<1>1. fs.ftable[f].ref > 0 /\ ptr' = ptr /\ Typed(fs)
  BY DEF UseFile, IInv
<1>2. PICK ip \in Slots : ip = fs.ftable[f].ip
  BY <1>1 DEF IInv, OpenOK
<1>3. f \in FilesAt(fs, ip)
  BY <1>1, <1>2 DEF FilesAt
<1>4. fs.icache[ip].ref > 0 /\ fs.icache[ip].inum \in Inodes
  BY <1>3, InUse1
<1>5. PICK cell \in Stored : cell = Data(fs.icache[fs.ftable[f].ip].inum)
  BY <1>2, <1>4, DataIs
<1>6. CASE fs' = filestat(fs, f)
  <2>1. Holds(fs, fs', {})
    BY <1>1, <1>2, <1>4, <1>6, FilestatHolds
  <2>2. QED  BY <1>1, <2>1, HoldsKeeps
<1>7. CASE \E n \in client.counts : fs' = fileread(fs, f, n)
  <2>1. Holds(fs, fs', {})
    BY <1>1, <1>2, <1>4, <1>7, FilereadHolds
  <2>2. QED  BY <1>1, <2>1, HoldsKeeps
<1>8. CASE \E n \in client.counts : fs' = filewrite(fs, f, n, cell)
  <2>1. Holds(fs, fs', {})
    BY <1>1, <1>2, <1>4, <1>8, FilewriteHolds
  <2>2. QED  BY <1>1, <2>1, HoldsKeeps
<1>9. QED  BY <1>5, <1>6, <1>7, <1>8 DEF UseFile

-----------------------------------------------------------------------------
IInvariant == IInv(fs, ptr) /\ client \in Clients

LEMMA ClientIs ==
  ASSUME NEW c \in Clients
  PROVE  c.counts \subseteq Nat /\ c.writes \subseteq BOOLEAN /\ c.types \subseteq Types
<1>1. UINT \in Nat
  BY FileSystemAssumption
<1>2. c.counts \subseteq 1 .. UINT - 1 /\ c.writes \subseteq BOOLEAN /\ c.types \subseteq {"dir", "file", "dev"}
  BY FileSystemAssumption
<1>3. QED  BY <1>1, <1>2 DEF Types

LEMMA NextKeeps ==
  ASSUME IInvariant, Next
  PROVE  IInvariant' /\ (Kept \/ Lookup)
<1>1. IInv(fs, ptr) /\ client \in Clients /\ client' = client
  BY DEF IInvariant, Next
<1>2. client.counts \subseteq Nat /\ client.writes \subseteq BOOLEAN /\ client.types \subseteq Types
  BY <1>1, ClientIs
<1>3. Links \subseteq Name
  BY FileSystemAssumption
<1>4. CASE References
  <2>1. ASSUME \E i \in Inodes : Iget(i) PROVE Kept
    BY <1>1, <2>1, IgetKeeps
  <2>2. ASSUME \E ip \in Slots : Idup(ip) \/ Ilock(ip) \/ Iunlock(ip) \/ Iput(ip) \/ Iunlockput(ip)
        PROVE  Kept
    BY <1>1, <2>2, IdupKeeps, IlockKeeps, IunlockKeeps, IputKeeps, IunlockputKeeps
  <2>3. Kept
    BY <1>4, <2>1, <2>2 DEF References
  <2>4. QED  BY <1>1, <2>3 DEF Kept, IInvariant
<1>5. CASE Allocation
  BY <1>1, <1>2, <1>5, IallocKeeps DEF Allocation, Kept, IInvariant
<1>6. CASE Linking
  BY <1>1, <1>6, SetLinksKeeps DEF Linking, Kept, IInvariant
<1>7. CASE Contents
  <2>1. PICK ip \in Slots, n \in client.counts :
          \E off \in {0, fs.icache[ip].size, fs.icache[ip].size + 1} : Readi(ip, off, n) \/ Writei(ip, off, n)
    BY <1>7 DEF Contents
  <2>2. fs.icache[ip].size \in Nat /\ n \in Nat
    BY <1>1, <1>2, CNodeFields, Sizes DEF IInv, Typed
  <2>3. PICK off \in Nat : Readi(ip, off, n) \/ Writei(ip, off, n)
    BY <2>1, <2>2
  <2>4. Kept
    BY <1>1, <2>2, <2>3, ReadiKeeps, WriteiCallKeeps
  <2>5. QED  BY <1>1, <2>4 DEF Kept, IInvariant
<1>8. CASE Directory
  <2>1. Kept
    BY <1>1, <1>3, <1>8, DirlookupKeeps, DirlinkKeeps DEF Directory
  <2>2. QED  BY <1>1, <2>1 DEF Kept, IInvariant
<1>9. CASE Lookup
  BY <1>1, <1>9, LookupKeeps DEF IInvariant
<1>10. CASE OpenFiles
  <2>1. ASSUME \E ip \in Slots, writable \in client.writes : Open(ip, writable) PROVE Kept
    BY <1>1, <1>2, <2>1, OpenKeeps
  <2>2. ASSUME \E f \in Files : Filedup(f) \/ Fileclose(f) \/ UseFile(f) PROVE Kept
    BY <1>1, <1>2, <2>2, FiledupKeeps, FilecloseKeeps, UseFileKeeps
  <2>3. Kept
    BY <1>10, <2>1, <2>2 DEF OpenFiles
  <2>4. QED  BY <1>1, <2>3 DEF Kept, IInvariant
<1>11. QED  BY <1>4, <1>5, <1>6, <1>7, <1>8, <1>9, <1>10 DEF Next

\* The disk that mkfs made, and nothing in memory.
LEMMA InitKeeps == Init => IInvariant
<1> SUFFICES ASSUME Init PROVE IInvariant
  OBVIOUS
<1>1. PICK disk : /\ DiskOK(disk)
                  /\ fs = [used |-> disk.used, dinode |-> disk.dinode, data |-> disk.data,
                           icache |-> [ip \in Slots |-> NoInode], ftable |-> [f \in Files |-> NoFileOpen],
                           stuck |-> FALSE]
  BY MkfsOK DEF Init
<1>2. /\ DOMAIN fs = {"used", "dinode", "data", "icache", "ftable", "stuck"}
      /\ fs.used = disk.used /\ fs.dinode = disk.dinode /\ fs.data = disk.data
      /\ fs.icache = [ip \in Slots |-> NoInode] /\ fs.ftable = [f \in Files |-> NoFileOpen]
      /\ fs.stuck = FALSE
  BY <1>1
<1>3. NoInode \in CNode /\ NoInode.ref = 0 /\ NoInode.flags = {}
  BY Sizes DEF NoInode, CNode, Types, Addrs, FreeDinode
<1>4. NoFileOpen \in OFile /\ NoFileOpen.ref = 0
  BY Sizes DEF NoFileOpen, OFile
<1>5. Typed(fs)
  BY <1>1, <1>2, <1>3, <1>4 DEF Typed, DiskOK
<1>6. ptr = [ip \in Slots |-> 0] /\ client \in Clients
  BY DEF Init
<1>7. \A ip \in Slots : FilesAt(fs, ip) = {}
  BY <1>2, <1>4 DEF FilesAt
<1>8. Counted(fs, ptr)
  <2>1. ASSUME NEW ip \in Slots PROVE Refs(fs, ip) = 0 /\ Due(fs, ptr, ip) = 0
    <3>1. Cardinality(FilesAt(fs, ip)) = 0
      BY <1>7, FS_EmptySet
    <3>2. Refs(fs, ip) = 0 /\ ptr[ip] = 0
      BY <1>2, <1>3, <1>6 DEF Refs
    <3>3. QED  BY <3>1, <3>2 DEF Due
  <2>2. QED  BY <2>1 DEF Counted
<1>9. OneSlot(fs) /\ BusyHeld(fs, ptr) /\ OpenOK(fs)
  BY <1>2, <1>3, <1>4 DEF OneSlot, BusyHeld, Busy, OpenOK
<1>10. QED  BY <1>5, <1>6, <1>8, <1>9 DEF IInvariant, IInv

LEMMA Stutters == ASSUME IInvariant, UNCHANGED fsVars PROVE IInvariant' /\ Kept
<1>1. fs' = fs /\ ptr' = ptr /\ client' = client
  BY DEF fsVars
<1>2. QED  BY <1>1 DEF IInvariant, Kept, Even

\* The invariant holds in every state: whatever the client calls, the functions of fs.c
\* and file.c keep the types and count the references.
THEOREM Invariant == Spec => []IInvariant
<1>1. IInvariant /\ [Next]_fsVars => IInvariant'
  BY NextKeeps, Stutters
<1>2. QED  BY <1>1, InitKeeps, PTL DEF Spec

-----------------------------------------------------------------------------
(***************************************************************************)
(* What the runs check of this.                                            *)
(***************************************************************************)
\* The disk, the caches and the references keep their types, whatever a call
\* finds on the disk (fs.c, file.c).
THEOREM FSTypeCorrect == Spec => []FSTypeOK
<1>1. IInvariant => FSTypeOK
  <2> SUFFICES ASSUME IInvariant PROVE FSTypeOK
    OBVIOUS
  <2>1. Typed(fs) /\ ptr \in [Slots -> Nat]
    BY DEF IInvariant, IInv
  <2>2. DNode \subseteq Dinode
    BY Sizes DEF DNode, Dinode, Types, Addrs
  <2>3. Stored \subseteq Cell
    <3>1. Blocks \subseteq 0 .. FSSIZE + NINODES
      <4>1. FSSIZE \in Nat /\ NINODES \in Nat
        BY DiskAssumption
      <4>2. QED  BY <4>1 DEF Blocks
    <3>2. QED  BY <3>1 DEF Stored, Cell
  <2>4. fs.used \subseteq Blocks /\ fs.dinode \in [Inodes -> Dinode]
    BY <2>1, <2>2 DEF Typed, DiskOK
  <2>5. \A b \in Blocks : fs.data[b] \in [0 .. BSIZE - 1 -> Cell]
    BY <2>1, <2>3 DEF Typed, DiskOK, InBlock
  <2>6. ASSUME NEW ip \in Slots
        PROVE  /\ fs.icache[ip].inum \in 0 .. NINODES - 1 /\ fs.icache[ip].ref \in Nat
               /\ fs.icache[ip].flags \subseteq {"BUSY", "VALID"} /\ OnDisk(fs.icache[ip]) \in Dinode
    <3>1. PICK e \in CNode : e = fs.icache[ip]
      BY <2>1 DEF Typed
    <3>2. OnDisk(e) \in Dinode
      BY <2>2, OnDiskIs
    <3>3. QED  BY <3>1, <3>2 DEF CNode
  <2>7. fs.ftable \in [Files -> OFile] /\ fs.stuck \in BOOLEAN
    BY <2>1 DEF Typed
  <2>8. QED  BY <2>1, <2>4, <2>5, <2>6, <2>7 DEF FSTypeOK, OFile, MaxSize
<1>2. QED  BY <1>1, Invariant, PTL

\* "Is the inode already cached?" (fs.c:226): no inode is in two slots in use.
THEOREM InodeHasOneSlot == Spec => []OneSlotPerInode
<1>1. IInvariant => OneSlotPerInode
  BY DEF IInvariant, IInv, OneSlot, OneSlotPerInode, InUse
<1>2. QED  BY <1>1, Invariant, PTL

\* What the model calls lost is what the invariant counts.
LEMMA LostIs == ASSUME IInvariant, NEW ip \in Slots PROVE Lost(ip) = Extra(fs, ptr, ip) /\ Lost(ip) >= 0
<1>1. Typed(fs) /\ ptr \in [Slots -> Nat]
  BY DEF IInvariant, IInv
<1>2. Refs(fs, ip) \in Nat /\ Due(fs, ptr, ip) \in Nat /\ Refs(fs, ip) >= Due(fs, ptr, ip)
  BY <1>1, Numeric DEF IInvariant, IInv, Counted
<1>3. Lost(ip) = Refs(fs, ip) - Due(fs, ptr, ip)
  BY DEF Lost, Pointers, FilesOf, FilesAt, Refs, Due
<1>4. QED  BY <1>2, <1>3 DEF Extra

\* "ip->ref tracks the number of in-memory pointers to the entry" (fs.c:122):
\* there are never fewer references than pointers, and only a path lookup makes
\* the difference another.
THEOREM ReferencesAreCounted == Spec => ReferencesCounted
<1>1. IInvariant => NoDanglingPointer
  BY LostIs DEF NoDanglingPointer
<1>2. ASSUME IInvariant, IInvariant', [Next]_fsVars
      PROVE  [(\A ip \in Slots : Lost(ip)' = Lost(ip)) \/ Lookup]_fsVars
  <2>1. CASE Lookup
    BY <2>1
  <2>2. CASE Kept
    <3>1. ASSUME NEW ip \in Slots PROVE Lost(ip)' = Lost(ip)
      <4>1. Lost(ip) = Extra(fs, ptr, ip)
        BY <1>2, LostIs
      <4>2. Lost(ip)' = Extra(fs', ptr', ip)
        BY DEF Lost, Pointers, FilesOf, FilesAt, Refs, Due, Extra
      <4>3. QED  BY <2>2, <4>1, <4>2 DEF Kept, Even
    <3>2. QED  BY <3>1
  <2>3. QED  BY <1>2, <2>1, <2>2, NextKeeps
<1>3. IInvariant /\ IInvariant' /\ [Next]_fsVars
        => [(\A ip \in Slots : Lost(ip)' = Lost(ip)) \/ Lookup]_fsVars
  BY <1>2
<1>4. QED  BY <1>1, <1>3, Invariant, PTL DEF Spec, ReferencesCounted, OnlyLookupsLose

-----------------------------------------------------------------------------
(***************************************************************************)
(* What an inode is, how often it is linked, and who names it, on the disk *)
(* and in the slots.                                                       *)
(***************************************************************************)
NamedIn(data, i) == \E b \in Blocks, c \in InBlock : data[b][c].num = i /\ data[b][c].name \in Name

\* A slot that has been read has the type and links of its inode on the disk.
Matches(s, ip) ==
  /\ s.dinode[s.icache[ip].inum].type = s.icache[ip].type
  /\ s.dinode[s.icache[ip].inum].nlink = s.icache[ip].nlink

Valid(e) == "VALID" \in e.flags

LinksOK(dinode, data) ==
  /\ \A i \in Inodes : /\ dinode[i].type = "free" => dinode[i].nlink = 0
                       /\ NamedIn(data, i) => dinode[i].nlink > 0
  /\ dinode[ROOTINO].nlink > 0

SlotsOK(s) ==
  \A ip \in Slots :
    /\ Busy(s.icache[ip]) => Valid(s.icache[ip])
    /\ s.icache[ip].ref > 0 => s.dinode[s.icache[ip].inum].type # "free"
    /\ s.icache[ip].ref > 0 /\ Valid(s.icache[ip]) => Matches(s, ip)

LInv(s) == Typed(s) /\ OneSlot(s) /\ LinksOK(s.dinode, s.data) /\ SlotsOK(s)

\* Types and links stay, and no inode is named that was not, but those of X.
SameLinks(d, e) == \A i \in Inodes : e[i].type = d[i].type /\ e[i].nlink = d[i].nlink

NoneNamed(data, new, X) == \A i \in Inodes : NamedIn(new, i) => NamedIn(data, i) \/ i \in X

Alike(s, t, X) ==
  /\ SameLinks(s.dinode, t.dinode) /\ NoneNamed(s.data, t.data, X)
  /\ \A ip \in Slots : t.icache[ip].type = s.icache[ip].type /\ t.icache[ip].nlink = s.icache[ip].nlink

LEMMA AlikeAll == ASSUME NEW s, NEW X PROVE Alike(s, s, X)
  BY DEF Alike, SameLinks, NoneNamed

LEMMA AlikeMore ==
  ASSUME NEW s, NEW t, NEW u, NEW X, Alike(s, t, X), Alike(t, u, X)
  PROVE  Alike(s, u, X)
<1>1. SameLinks(s.dinode, u.dinode)
  BY DEF Alike, SameLinks
<1>2. NoneNamed(s.data, u.data, X)
  BY DEF Alike, NoneNamed
<1>3. QED  BY <1>1, <1>2 DEF Alike

\* A slot's inode is the one it was for.
LEMMA MatchesStays ==
  ASSUME NEW s, Typed(s), NEW t, NEW X, Keeps(s, t), Alike(s, t, X), NEW ip \in Slots,
         s.icache[ip].ref > 0, Matches(s, ip)
  PROVE  Matches(t, ip)
<1>1. s.icache[ip].inum \in Inodes /\ t.icache[ip].inum = s.icache[ip].inum
  BY DEF Typed, Keeps, SameUse
<1>2. QED  BY <1>1 DEF Alike, SameLinks, Matches

LEMMA AlikeKeepsLInv ==
  ASSUME NEW s, NEW t, NEW X, LInv(s), Keeps(s, t), Alike(s, t, X),
         \A i \in Inodes \cap X : s.dinode[i].nlink > 0
  PROVE  LInv(t)
<1>1. Typed(s) /\ Typed(t) /\ OneSlot(t)
  BY DEF LInv, Keeps, OneSlot, SameUse
<1>2. LinksOK(t.dinode, t.data)
  <2>1. LinksOK(s.dinode, s.data) /\ SameLinks(s.dinode, t.dinode) /\ NoneNamed(s.data, t.data, X)
    BY DEF LInv, Alike
  <2>2. QED  BY <2>1, Sizes DEF LinksOK, SameLinks, NoneNamed
<1>3. SlotsOK(t)
  <2> SUFFICES ASSUME NEW ip \in Slots
               PROVE  /\ Busy(t.icache[ip]) => Valid(t.icache[ip])
                      /\ t.icache[ip].ref > 0 => t.dinode[t.icache[ip].inum].type # "free"
                      /\ t.icache[ip].ref > 0 /\ Valid(t.icache[ip]) => Matches(t, ip)
    BY DEF SlotsOK
  <2>1. SameUse(s.icache[ip], t.icache[ip])
    BY DEF Keeps
  <2>2. Busy(t.icache[ip]) => Valid(t.icache[ip])
    BY <2>1 DEF SameUse, Busy, Valid, LInv, SlotsOK
  <2>3. ASSUME t.icache[ip].ref > 0
        PROVE  /\ t.dinode[t.icache[ip].inum].type # "free"
               /\ Valid(t.icache[ip]) => Matches(t, ip)
    <3>1. s.icache[ip].ref > 0 /\ t.icache[ip].inum = s.icache[ip].inum /\ s.icache[ip].inum \in Inodes
      BY <1>1, <2>1, <2>3 DEF SameUse, Typed
    <3>2. t.dinode[t.icache[ip].inum].type # "free"
      BY <3>1 DEF LInv, SlotsOK, Alike, SameLinks
    <3>3. Valid(t.icache[ip]) => Matches(t, ip)
      BY <1>1, <2>1, <3>1, MatchesStays DEF SameUse, Valid, LInv, SlotsOK
    <3>4. QED  BY <3>2, <3>3
  <2>4. QED  BY <2>2, <2>3
<1>4. QED  BY <1>1, <1>2, <1>3 DEF LInv

-----------------------------------------------------------------------------
(***************************************************************************)
(* Blocks and contents.                                                    *)
(***************************************************************************)
LEMMA ZeroBlockUnnamed == \A c \in InBlock : ZeroBlock[c].name \notin Name
  BY DiskAssumption DEF ZeroBlock, Zero, InBlock

LEMMA BallocAlike == ASSUME NEW s, Typed(s), NEW X PROVE Alike(s, balloc(s).s, X)
<1> DEFINE free == Blocks \ s.used
<1>1. CASE free = {}
  BY <1>1, AlikeAll DEF balloc, Returns
<1>2. CASE free # {}
  <2>1. PICK b : b = Min(free)
    OBVIOUS
  <2> DEFINE t == [s EXCEPT !.used = @ \cup {b}, !.data[b] = ZeroBlock]
  <2>2. balloc(s).s = t
    BY <1>2, <2>1 DEF balloc, Returns
  <2>3. t.dinode = s.dinode /\ t.icache = s.icache /\ t.data = [s.data EXCEPT ![b] = ZeroBlock]
    BY DEF Typed
  <2> HIDE DEF t
  <2>4. NoneNamed(s.data, t.data, X)
    <3>1. DOMAIN s.data = Blocks
      BY DEF Typed, DiskOK
    <3>2. QED  BY <2>3, <3>1, ZeroBlockUnnamed DEF NoneNamed, NamedIn
  <2>5. QED  BY <2>2, <2>3, <2>4 DEF Alike, SameLinks
<1>3. QED  BY <1>1, <1>2

LEMMA BfreeAlike == ASSUME NEW s, Typed(s), NEW b, NEW X PROVE Alike(s, bfree(s, b), X)
<1>1. PICK t : t = bfree(s, b)
  OBVIOUS
<1>2. t.dinode = s.dinode /\ t.icache = s.icache /\ t.data = s.data
  BY <1>1 DEF bfree, Typed
<1>3. QED  BY <1>1, <1>2 DEF Alike, SameLinks, NoneNamed

\* A slot's entry changes, but not its type and links.
LEMMA EntryAlike ==
  ASSUME NEW s, Typed(s), NEW ip \in Slots, NEW e, e.type = s.icache[ip].type, e.nlink = s.icache[ip].nlink,
         NEW t, t = [s EXCEPT !.icache = [s.icache EXCEPT ![ip] = e]], NEW X
  PROVE  Alike(s, t, X)
<1>1. t.dinode = s.dinode /\ t.data = s.data /\ t.icache = [s.icache EXCEPT ![ip] = e] /\ DOMAIN s.icache = Slots
  BY DEF Typed
<1>2. QED  BY <1>1 DEF Alike, SameLinks, NoneNamed

LEMMA CellAlike ==
  ASSUME NEW s, Typed(s), NEW cell, NEW b, NEW o, NEW X, cell.name \in Name => cell.num \in X,
         NEW t, t = [s EXCEPT !.data[b][o] = cell]
  PROVE  Alike(s, t, X)
<1>1. t.dinode = s.dinode /\ t.icache = s.icache /\ t.data = [s.data EXCEPT ![b][o] = cell]
  BY DEF Typed
<1>2. s.data \in [Blocks -> [InBlock -> Stored]]
  BY DEF Typed, DiskOK
<1>3. NoneNamed(s.data, t.data, X)
  <2> SUFFICES ASSUME NEW i \in Inodes, NEW b1 \in Blocks, NEW c \in InBlock,
                      t.data[b1][c].num = i, t.data[b1][c].name \in Name
               PROVE  NamedIn(s.data, i) \/ i \in X
    BY DEF NoneNamed, NamedIn
  <2>1. t.data[b1][c] = cell \/ t.data[b1][c] = s.data[b1][c]
    BY <1>1, <1>2
  <2>2. QED  BY <2>1 DEF NamedIn
<1>4. QED  BY <1>1, <1>3 DEF Alike, SameLinks

LEMMA FilledAlike ==
  ASSUME NEW s, Typed(s), NEW ip \in Slots, NEW n, NEW X PROVE Alike(s, Filled(s, ip, n), X)
<1>1. CASE s.icache[ip].addrs[n] # 0
  BY <1>1, AlikeAll DEF Filled
<1>2. CASE s.icache[ip].addrs[n] = 0
  <2>1. PICK new : new = balloc(s)
    OBVIOUS
  <2>2. PICK t : t = [new.s EXCEPT !.icache[ip].addrs[n] = new.r]
    OBVIOUS
  <2>3. Filled(s, ip, n) = t
    BY <1>2, <2>1, <2>2 DEF Filled
  <2>4. Alike(s, new.s, X) /\ Typed(new.s)
    BY <2>1, BallocAlike, BallocLeaves DEF Leaves
  <2>5. PICK e \in CNode : e = new.s.icache[ip]
    BY <2>4 DEF Typed
  <2> DEFINE g == [e EXCEPT !.addrs[n] = new.r]
  <2>6. t = [new.s EXCEPT !.icache = [new.s.icache EXCEPT ![ip] = g]]
    BY <2>2, <2>4, <2>5 DEF Typed
  <2>7. g.type = e.type /\ g.nlink = e.nlink
    BY DEF CNode
  <2> HIDE DEF g
  <2>8. Alike(new.s, t, X)
    BY <2>4, <2>5, <2>6, <2>7, EntryAlike
  <2>9. QED  BY <2>3, <2>4, <2>8, AlikeMore
<1>3. QED  BY <1>1, <1>2

LEMMA IndirectAlike ==
  ASSUME NEW s, Typed(s), NEW ip \in Slots, NEW n, NEW X PROVE Alike(s, Indirect(s, ip, n).s, X)
<1>1. PICK table : table = s.icache[ip].addrs[NDIRECT]
  OBVIOUS
<1>2. PICK new : new = balloc(s)
  OBVIOUS
<1>3. PICK t : t = [new.s EXCEPT !.data[table][n] = Address(new.r)]
  OBVIOUS
<1>4. Alike(s, new.s, X) /\ Typed(new.s)
  BY <1>2, BallocAlike, BallocLeaves DEF Leaves
<1>5. Address(new.r).name \notin Name
  BY DiskAssumption DEF Address
<1>6. Alike(new.s, t, X)
  BY <1>3, <1>4, <1>5, CellAlike
<1>7. Indirect(s, ip, n).s \in {s, t}
  BY <1>1, <1>2, <1>3 DEF Indirect, Returns
<1>8. QED  BY <1>4, <1>6, <1>7, AlikeAll, AlikeMore

LEMMA BmapAlike ==
  ASSUME NEW s, Typed(s), NEW ip \in Slots, NEW bn, NEW X PROVE Alike(s, bmap(s, ip, bn).s, X)
<1>1. PICK direct : direct = Filled(s, ip, bn)
  OBVIOUS
<1>2. PICK table : table = Filled(s, ip, NDIRECT)
  OBVIOUS
<1>3. Alike(s, direct, X) /\ Alike(s, table, X) /\ Typed(table)
  BY <1>1, <1>2, FilledAlike, FilledLeaves DEF Leaves
<1>4. Alike(table, Indirect(table, ip, bn - NDIRECT).s, X)
  BY <1>3, IndirectAlike
<1>5. bmap(s, ip, bn).s \in {direct, Indirect(table, ip, bn - NDIRECT).s, s}
  BY <1>1, <1>2 DEF bmap, Direct, Returns
<1>6. QED  BY <1>3, <1>4, <1>5, AlikeAll, AlikeMore

LEMMA FreedAlike ==
  ASSUME NEW s, Typed(s), NEW list, Len(list) \in Nat, NEW X PROVE Alike(s, Freed(s, list), X)
<1>0. PICK n \in Nat : n = Len(list)
  OBVIOUS
<1>1. PICK f : /\ f[0] = s /\ f[n] = Freed(s, list)
               /\ \A k \in 0 .. n - 1 :
                    f[k + 1] = IF list[k + 1] = 0 THEN f[k] ELSE bfree(f[k], list[k + 1])
  BY <1>0, FreedIs
<1> DEFINE T == {k \in 0 .. n : Typed(f[k]) /\ Alike(s, f[k], X)}
<1>2. 0 \in T
  BY <1>1, AlikeAll
<1>3. ASSUME NEW k \in 0 .. n - 1, k \in T PROVE k + 1 \in T
  <2>1. Typed(f[k]) /\ Alike(s, f[k], X)
    BY <1>3
  <2>2. Typed(f[k + 1]) /\ Alike(f[k], f[k + 1], X)
    BY <1>1, <2>1, AlikeAll, BfreeAlike, BfreeLeaves DEF Leaves
  <2>3. QED  BY <2>1, <2>2, AlikeMore
<1>4. 0 .. n \subseteq T
  <2> HIDE DEF T
  <2> QED  BY <1>0, <1>2, <1>3, IntervalInduction
<1>5. QED  BY <1>0, <1>1, <1>4

\* Saving a slot that matches.
LEMMA IupdateAlike ==
  ASSUME NEW s, Typed(s), NEW ip \in Slots, s.icache[ip].ref > 0, Matches(s, ip), NEW X
  PROVE  Alike(s, iupdate(s, ip), X)
<1>1. PICK t : t = iupdate(s, ip)
  OBVIOUS
<1>2. PICK i \in Inodes : i = s.icache[ip].inum
  BY DEF Typed
<1>3. PICK d : d = OnDisk(s.icache[ip])
  OBVIOUS
<1>4. t.dinode = [s.dinode EXCEPT ![i] = d] /\ t.data = s.data /\ t.icache = s.icache
  BY <1>1, <1>2, <1>3 DEF iupdate, Typed
<1>5. d.type = s.dinode[i].type /\ d.nlink = s.dinode[i].nlink
  BY <1>2, <1>3 DEF OnDisk, Matches
<1>6. SameLinks(s.dinode, t.dinode)
  BY <1>4, <1>5 DEF SameLinks, Typed, DiskOK
<1>7. QED  BY <1>1, <1>4, <1>6 DEF Alike, NoneNamed

LEMMA CellReadAlike ==
  ASSUME NEW x, DOMAIN x = {"s", "r", "cells"}, Typed(x.s), NEW ip \in Slots, NEW o, NEW X
  PROVE  Alike(x.s, CellRead(x, ip, o).s, X)
<1>1. PICK at : at = bmap(x.s, ip, o \div BSIZE)
  OBVIOUS
<1>2. CellRead(x, ip, o).s = at.s
  BY <1>1 DEF CellRead
<1>3. QED  BY <1>1, <1>2, BmapAlike

\* What is read was there.
ReadFrom(s, c) == \E b \in Blocks, o \in InBlock : s.data[b][o] = c

LEMMA ReadiAlike ==
  ASSUME NEW s, Typed(s), NEW ip \in Slots, NEW off \in Nat, NEW n \in Nat, NEW X
  PROVE  /\ Alike(s, readi(s, ip, off, n).s, X)
         /\ ~Unreadable(s, ip, off, n) /\ Readable(s, ip, off, n) = 1 =>
              ReadFrom(readi(s, ip, off, n).s, readi(s, ip, off, n).cells[1])
<1>1. CASE Unreadable(s, ip, off, n)
  <2>1. readi(s, ip, off, n).s = s
    BY <1>1 DEF readi, Unreadable
  <2>2. QED  BY <1>1, <2>1, AlikeAll
<1>2. CASE ~Unreadable(s, ip, off, n)
  <2>1. PICK size \in 0 .. MaxSize : size = s.icache[ip].size
    BY CNodeFields DEF Typed
  <2>2. PICK m \in Nat : m = Readable(s, ip, off, n) /\ off + m <= size
    BY <1>2, <2>1, Sizes DEF Readable, Unreadable
  <2>3. PICK f : Reads(f, s, ip, off, n, m)
    BY <1>2, <2>2, ReadIs
  <2> DEFINE T == {k \in 0 .. m : /\ DOMAIN f[k] = {"s", "r", "cells"} /\ Typed(f[k].s) /\ Alike(s, f[k].s, X)
                                  /\ f[k].cells \in Seq(Stored) /\ Len(f[k].cells) = k}
  <2>4. 0 \in T
    <3>1. f[0] = [s |-> s, r |-> m, cells |-> <<>>]
      BY <2>3 DEF Reads
    <3>2. <<>> \in Seq(Stored) /\ Len(<<>>) = 0
      OBVIOUS
    <3>3. DOMAIN f[0] = {"s", "r", "cells"} /\ f[0].s = s /\ f[0].cells \in Seq(Stored) /\ Len(f[0].cells) = 0
      BY <3>1, <3>2
    <3>4. QED  BY <3>3, AlikeAll
  <2>5. ASSUME NEW k \in 0 .. m - 1, k \in T PROVE k + 1 \in T
    <3>1. /\ DOMAIN f[k] = {"s", "r", "cells"} /\ Typed(f[k].s) /\ Alike(s, f[k].s, X)
          /\ f[k].cells \in Seq(Stored) /\ Len(f[k].cells) = k
      BY <2>5
    <3>2. off + k \in Nat /\ off + k < MaxSize
      BY <2>1, <2>2, Sizes
    <3> DEFINE y == CellRead(f[k], ip, off + k)
    <3>3. /\ Leaves(f[k].s, y.s) /\ DOMAIN y = {"s", "r", "cells"}
          /\ y.cells \in Seq(Stored) /\ Len(y.cells) = k + 1
      BY <3>1, <3>2, CellReadLeaves
    <3>4. Alike(f[k].s, y.s, X)
      BY <3>1, CellReadAlike
    <3>5. f[k + 1] = y
      BY <2>3 DEF Reads
    <3> HIDE DEF y
    <3>6. Alike(s, y.s, X) /\ Typed(y.s)
      BY <3>1, <3>3, <3>4, AlikeMore DEF Leaves
    <3>7. QED  BY <3>3, <3>5, <3>6
  <2>6. 0 .. m \subseteq T
    <3> HIDE DEF T
    <3> QED  BY <2>4, <2>5, IntervalInduction
  <2>7. m \in T /\ 0 \in T
    BY <2>6
  <2>8. Alike(s, readi(s, ip, off, n).s, X)
    BY <2>3, <2>7 DEF Reads
  <2>9. ASSUME m = 1 PROVE ReadFrom(readi(s, ip, off, n).s, readi(s, ip, off, n).cells[1])
    <3>1. PICK at : at = bmap(s, ip, off \div BSIZE)
      OBVIOUS
    <3>2. off \in Nat /\ off < MaxSize
      BY <2>1, <2>2, <2>9, Sizes
    <3>3. Typed(at.s) /\ at.r \in Blocks /\ off % BSIZE \in InBlock
      BY <3>1, <3>2, OffsetIn, PlaceIn, BmapLeaves DEF Leaves
    <3>4. f[0] = [s |-> s, r |-> m, cells |-> <<>>] /\ f[1] = CellRead(f[0], ip, off) /\ f[1] = readi(s, ip, off, n)
      <4>1. 0 \in 0 .. m - 1 /\ 0 + 1 = 1 /\ off + 0 = off
        BY <2>9
      <4>2. f[0 + 1] = CellRead(f[0], ip, off + 0)
        BY <2>3, <4>1 DEF Reads
      <4>3. QED  BY <2>3, <2>9, <4>1, <4>2 DEF Reads
    <3>5. PICK c : c = at.s.data[at.r][off % BSIZE]
      OBVIOUS
    <3>6. f[1].s = at.s /\ f[1].cells = Append(<<>>, c)
      BY <3>1, <3>4, <3>5 DEF CellRead
    <3>7. f[1].cells[1] = c
      BY <3>6
    <3>8. QED  BY <3>3, <3>4, <3>5, <3>6, <3>7 DEF ReadFrom
  <2>10. QED  BY <2>2, <2>8, <2>9
<1>3. QED  BY <1>1, <1>2

LEMMA WrittenAlike ==
  ASSUME NEW s, Typed(s), NEW ip \in Slots, NEW off \in Nat, NEW n \in Nat, off + n <= MaxSize,
         NEW cell \in Stored, NEW X, cell.name \in Name => cell.num \in X
  PROVE  Alike(s, Written(s, ip, off, n, cell), X)
<1>1. PICK f : Writes(f, s, ip, off, n, cell)
  BY WrittenIs
<1> DEFINE T == {k \in 0 .. n : Typed(f[k]) /\ Alike(s, f[k], X)}
<1>2. 0 \in T
  BY <1>1, AlikeAll DEF Writes
<1>3. ASSUME NEW k \in 0 .. n - 1, k \in T PROVE k + 1 \in T
  <2>1. Typed(f[k]) /\ Alike(s, f[k], X)
    BY <1>3
  <2>2. PICK at : at = bmap(f[k], ip, (off + k) \div BSIZE)
    OBVIOUS
  <2>3. Typed(at.s) /\ Alike(f[k], at.s, X)
    BY <2>1, <2>2, BmapLeaves, BmapAlike DEF Leaves
  <2>4. f[k + 1] = [at.s EXCEPT !.data[at.r][(off + k) % BSIZE] = cell]
    BY <1>1, <2>2 DEF Writes, CellWritten
  <2>5. Alike(at.s, f[k + 1], X) /\ Typed(f[k + 1])
    <3>1. Alike(at.s, f[k + 1], X)
      BY <2>3, <2>4, CellAlike
    <3>2. Leaves(at.s, f[k + 1])
      BY <2>3, <2>4, CellLeaves
    <3>3. QED  BY <3>1, <3>2 DEF Leaves
  <2>6. Alike(s, f[k + 1], X)
    BY <2>1, <2>3, <2>5, AlikeMore
  <2>7. QED  BY <2>5, <2>6
<1>4. 0 .. n \subseteq T
  <2> HIDE DEF T
  <2> QED  BY <1>2, <1>3, IntervalInduction
<1>5. QED  BY <1>1, <1>4 DEF Writes

LEMMA GrownAlike ==
  ASSUME NEW s, Typed(s), NEW ip \in Slots, NEW size \in 0 .. MaxSize,
         s.icache[ip].ref > 0, Matches(s, ip), NEW X
  PROVE  Alike(s, Grown(s, ip, size), X)
<1>1. PICK e \in CNode : e = s.icache[ip]
  BY DEF Typed
<1>2. PICK t : t = [s EXCEPT !.icache[ip].size = size]
  OBVIOUS
<1> DEFINE g == [e EXCEPT !.size = size]
<1>3. t = [s EXCEPT !.icache = [s.icache EXCEPT ![ip] = g]]
  BY <1>1, <1>2 DEF Typed
<1>4. g \in CNode /\ g.type = e.type /\ g.nlink = e.nlink /\ SameUse(e, g)
  BY DEF CNode, SameUse
<1> HIDE DEF g
<1>5. Alike(s, t, X) /\ Keeps(s, t)
  BY <1>1, <1>3, <1>4, EntryAlike, EntryKeeps
<1>6. Typed(t) /\ t.icache[ip].ref > 0 /\ Matches(t, ip)
  BY <1>5, MatchesStays DEF Keeps, SameUse
<1>7. Alike(s, iupdate(t, ip), X)
  BY <1>5, <1>6, IupdateAlike, AlikeMore
<1>8. Grown(s, ip, size) \in {s, iupdate(t, ip)}
  BY <1>2 DEF Grown
<1>9. QED  BY <1>7, <1>8, AlikeAll

LEMMA WriteiAlike ==
  ASSUME NEW s, Typed(s), NEW ip \in Slots, NEW off \in Nat, NEW n \in Nat, NEW cell \in Stored,
         s.icache[ip].ref > 0, Matches(s, ip), NEW X, cell.name \in Name => cell.num \in X
  PROVE  Alike(s, writei(s, ip, off, n, cell).s, X)
<1>1. CASE Refused(s, ip, off, n)
  BY <1>1, AlikeAll DEF writei, Returns
<1>2. CASE ~Refused(s, ip, off, n)
  <2>1. off + n \in 0 .. MaxSize
    BY <1>2, Sizes DEF Refused, MaxSize
  <2>2. PICK w : w = Written(s, ip, off, n, cell)
    OBVIOUS
  <2>3. Alike(s, w, X) /\ Keeps(s, w) /\ Typed(w)
    <3>1. off + n <= MaxSize
      BY <2>1, Sizes
    <3>2. Alike(s, w, X)
      BY <2>2, <3>1, WrittenAlike
    <3>3. Leaves(s, w)
      BY <2>2, <3>1, WrittenLeaves
    <3>4. QED  BY <3>2, <3>3, LeavesKeeps DEF Leaves
  <2>4. w.icache[ip].ref > 0 /\ Matches(w, ip)
    BY <2>3, MatchesStays DEF Keeps, SameUse
  <2>5. writei(s, ip, off, n, cell).s = Grown(w, ip, off + n)
    BY <1>2, <2>2 DEF writei, Returns
  <2>6. Alike(w, Grown(w, ip, off + n), X)
    BY <2>1, <2>3, <2>4, GrownAlike
  <2>7. QED  BY <2>3, <2>5, <2>6, AlikeMore
<1>3. QED  BY <1>1, <1>2

\* An entry that is found with a name names its inode.
LEMMA EntriesAlike ==
  ASSUME NEW s, Typed(s), NEW dp \in Slots, s.icache[dp].type = "dir", NEW name, NEW X
  PROVE  LET hit == Entries(s, dp, name)
         IN  /\ Alike(s, hit.s, X)
             /\ hit.at # s.icache[dp].size => ReadFrom(hit.s, hit.de) /\ Wanted(hit.de, name)
<1>1. PICK size \in 0 .. MaxSize : size = s.icache[dp].size
  BY CNodeFields DEF Typed
<1>2. size \in Nat
  BY Sizes
<1>3. PICK f : Looks(f, s, dp, name, size)
  BY <1>1, <1>2, EntriesIs
<1> DEFINE Good(x) == /\ Leaves(s, x.s) /\ Alike(s, x.s, X)
                      /\ x.at # size => ReadFrom(x.s, x.de) /\ Wanted(x.de, name)
           T == {k \in 0 .. size : Good(f[k])}
<1>4. 0 \in T
  BY <1>2, <1>3, KeepsAll, AlikeAll DEF Looks
<1>5. ASSUME NEW k \in 0 .. size - 1, k \in T PROVE k + 1 \in T
  <2>1. PICK x, read : x = f[k].s /\ read = readi(x, dp, k, 1)
    OBVIOUS
  <2>2. Good(f[k]) /\ Leaves(s, x) /\ Typed(x)
    BY <1>5, <2>1 DEF Leaves
  <2>3. x.icache[dp].type = "dir" /\ x.icache[dp].size = size /\ k \in Nat /\ k < size
    BY <1>1, <1>2, <2>2 DEF Leaves, SameNode
  <2>4. ~Unreadable(x, dp, k, 1) /\ Readable(x, dp, k, 1) = 1
    <3>1. k + 1 < UINT /\ k + 1 <= size
      BY <1>1, <2>3, Sizes
    <3>2. (k + 1) % UINT = k + 1
      BY <2>3, <3>1, Sizes
    <3>3. QED  BY <1>2, <2>3, <3>1, <3>2 DEF Unreadable, Readable
  <2>5. Leaves(x, read.s) /\ Alike(x, read.s, X) /\ ReadFrom(read.s, read.cells[1])
    BY <2>1, <2>2, <2>3, <2>4, ReadiOne, ReadiAlike
  <2>6. Leaves(s, read.s) /\ Alike(s, read.s, X)
    BY <2>1, <2>2, <2>5, LeavesMore, AlikeMore
  <2>7. f[k + 1] = IF f[k].at # size THEN f[k]
                   ELSE [s |-> read.s, de |-> read.cells[1],
                         at |-> IF Wanted(read.cells[1], name) THEN k ELSE size]
    BY <1>3, <2>1 DEF Looks, EntryLooked
  <2>8. Good(f[k + 1])
    <3>1. CASE f[k].at # size
      BY <2>2, <2>7, <3>1
    <3>2. CASE f[k].at = size
      <4>1. /\ f[k + 1].s = read.s /\ f[k + 1].de = read.cells[1]
            /\ f[k + 1].at = IF Wanted(read.cells[1], name) THEN k ELSE size
        BY <2>7, <3>2
      <4>2. QED  BY <2>5, <2>6, <4>1
    <3>3. QED  BY <3>1, <3>2
  <2>9. QED  BY <1>2, <2>8
<1>6. 0 .. size \subseteq T
  <2> HIDE DEF T
  <2> QED  BY <1>2, <1>4, <1>5, IntervalInduction
<1>7. QED  BY <1>1, <1>2, <1>3, <1>6 DEF Looks

LEMMA ItruncAlike ==
  ASSUME NEW s, Typed(s), NEW ip \in Slots, s.icache[ip].ref > 0, Matches(s, ip), NEW X
  PROVE  Alike(s, itrunc(s, ip), X)
<1> DEFINE addrs == s.icache[ip].addrs
           direct == [n \in 1 .. NDIRECT |-> addrs[n - 1]]
           inner == [n \in 1 .. NINDIRECT |-> s.data[addrs[NDIRECT]][n - 1].num]
           all == direct \o IF addrs[NDIRECT] = 0 THEN <<>> ELSE inner \o <<addrs[NDIRECT]>>
<1>1. Len(all) \in Nat
  <2>1. NDIRECT \in Nat /\ NINDIRECT \in Nat
    BY Sizes
  <2>2. Len(direct) \in Nat /\ Len(inner) \in Nat
    BY <2>1
  <2> HIDE DEF direct, inner
  <2>3. Len(inner \o <<addrs[NDIRECT]>>) \in Nat /\ Len(<<>>) \in Nat
    BY <2>2
  <2>4. QED  BY <2>2, <2>3
<1>2. PICK freed : freed = Freed(s, all)
  OBVIOUS
<1>3. PICK t : t = [freed EXCEPT !.icache[ip].addrs = FreeDinode.addrs, !.icache[ip].size = 0]
  OBVIOUS
<1>4. itrunc(s, ip) = iupdate(t, ip)
  BY <1>2, <1>3 DEF itrunc
<1> HIDE DEF all
<1>5. Keeps(s, freed) /\ Alike(s, freed, X) /\ Typed(freed)
  BY <1>1, <1>2, FreedLeaves, FreedAlike, LeavesKeeps DEF Keeps
<1>6. PICK e \in CNode : e = freed.icache[ip]
  BY <1>5 DEF Typed
<1> DEFINE g == [e EXCEPT !.addrs = FreeDinode.addrs, !.size = 0]
<1>7. t = [freed EXCEPT !.icache = [freed.icache EXCEPT ![ip] = g]]
  BY <1>3, <1>5, <1>6 DEF Typed
<1>8. FreeDinode.addrs \in Addrs /\ 0 \in 0 .. MaxSize
  BY Sizes DEF FreeDinode, Addrs
<1>9. g \in CNode /\ SameUse(e, g) /\ g.type = e.type /\ g.nlink = e.nlink
  BY <1>8 DEF CNode, SameUse
<1> HIDE DEF g
<1>10. Keeps(freed, t) /\ Alike(freed, t, X)
  BY <1>5, <1>6, <1>7, <1>9, EntryKeeps, EntryAlike
<1>11. Keeps(s, t) /\ Alike(s, t, X) /\ Typed(t)
  BY <1>5, <1>10, KeepsMore, AlikeMore DEF Keeps
<1>12. t.icache[ip].ref > 0 /\ Matches(t, ip)
  BY <1>11, MatchesStays DEF Keeps, SameUse
<1>13. QED  BY <1>4, <1>11, <1>12, IupdateAlike, AlikeMore

-----------------------------------------------------------------------------
(***************************************************************************)
(* Steps that keep the invariant and free no inode.                        *)
(***************************************************************************)
NoneFreed(d, e) == \A i \in Inodes : d[i].type # "free" => e[i].type # "free"

Safe(s, t) == LInv(t) /\ NoneFreed(s.dinode, t.dinode)

HasLinks(s, ip) == s.icache[ip].ref > 0 /\ s.dinode[s.icache[ip].inum].nlink > 0

LEMMA SafeAll == ASSUME NEW s, LInv(s) PROVE Safe(s, s)
  BY DEF Safe, NoneFreed

LEMMA SafeMore == ASSUME NEW s, NEW t, NEW u, Safe(s, t), Safe(t, u) PROVE Safe(s, u)
  BY DEF Safe, NoneFreed

LEMMA AlikeSafe ==
  ASSUME NEW s, NEW t, NEW X, LInv(s), Keeps(s, t), Alike(s, t, X),
         \A i \in Inodes \cap X : s.dinode[i].nlink > 0
  PROVE  Safe(s, t)
<1>1. LInv(t)
  BY AlikeKeepsLInv
<1>2. NoneFreed(s.dinode, t.dinode)
  BY DEF Alike, SameLinks, NoneFreed
<1>3. QED  BY <1>1, <1>2 DEF Safe

\* One slot's entry changes.
LEMMA SlotSafe ==
  ASSUME NEW s, LInv(s), NEW ip \in Slots, NEW e \in CNode,
         NEW t, t = [s EXCEPT !.icache = [s.icache EXCEPT ![ip] = e]], OneSlot(t),
         Busy(e) => Valid(e),
         e.ref > 0 => e.inum \in Inodes /\ s.dinode[e.inum].type # "free",
         e.ref > 0 /\ Valid(e) => s.dinode[e.inum].type = e.type /\ s.dinode[e.inum].nlink = e.nlink
  PROVE  Safe(s, t) /\ t.dinode = s.dinode
<1>1. Typed(s) /\ LinksOK(s.dinode, s.data) /\ SlotsOK(s)
  BY DEF LInv
<1>2. t.dinode = s.dinode /\ t.data = s.data /\ t.icache = [s.icache EXCEPT ![ip] = e] /\ DOMAIN s.icache = Slots
  BY <1>1 DEF Typed
<1>3. Typed(t)
  BY <1>1, EntryTyped
<1>4. SlotsOK(t)
  <2>1. ASSUME NEW other \in Slots, other # ip
        PROVE  /\ Busy(t.icache[other]) => Valid(t.icache[other])
               /\ t.icache[other].ref > 0 => t.dinode[t.icache[other].inum].type # "free"
               /\ t.icache[other].ref > 0 /\ Valid(t.icache[other]) => Matches(t, other)
    <3>1. t.icache[other] = s.icache[other]
      BY <1>2, <2>1
    <3>2. QED  BY <1>1, <1>2, <3>1 DEF SlotsOK, Matches
  <2>2. t.icache[ip] = e
    BY <1>2
  <2>3. QED  BY <1>2, <2>1, <2>2 DEF SlotsOK, Matches
<1>5. LinksOK(t.dinode, t.data) /\ NoneFreed(s.dinode, t.dinode)
  BY <1>1, <1>2 DEF NoneFreed
<1>6. QED  BY <1>2, <1>3, <1>4, <1>5 DEF Safe, LInv

\* The same with the use it had.
LEMMA OneSlotStays ==
  ASSUME NEW s, Typed(s), OneSlot(s), NEW ip \in Slots, NEW e, e.ref = s.icache[ip].ref, e.inum = s.icache[ip].inum,
         NEW t, t = [s EXCEPT !.icache = [s.icache EXCEPT ![ip] = e]]
  PROVE  OneSlot(t)
<1>1. t.icache = [s.icache EXCEPT ![ip] = e] /\ DOMAIN s.icache = Slots
  BY DEF Typed
<1>2. QED  BY <1>1 DEF OneSlot

LEMMA IgetSafe ==
  ASSUME NEW s, LInv(s), NEW i \in Inodes, s.dinode[i].type # "free"
  PROVE  LET got == iget(s, i)
         IN  /\ Safe(s, got.s) /\ got.s.dinode = s.dinode
             /\ got.r # NULL => got.r \in Slots /\ got.s.icache[got.r].ref > 0 /\ got.s.icache[got.r].inum = i
<1> DEFINE found == {ip \in Slots : s.icache[ip].ref > 0 /\ s.icache[ip].inum = i}
           empty == {ip \in Slots : s.icache[ip].ref = 0}
<1>1. Typed(s) /\ OneSlot(s) /\ SlotsOK(s) /\ found \subseteq Nat /\ empty \subseteq Nat
  BY Sizes DEF LInv
<1>2. PICK got : got = iget(s, i)
  OBVIOUS
<1>3. OneSlot(got.s)
  <2>1. Got(s, got.s, got.r)
    BY <1>1, <1>2, IgetGets
  <2>2. QED  BY <1>1, <2>1, GotGrows DEF Grew
<1>4. CASE found # {}
  <2>1. PICK r : r = Min(found)
    OBVIOUS
  <2>2. r \in found
    BY <1>1, <1>4, <2>1, MinIs
  <2>3. PICK e \in CNode : e = s.icache[r]
    BY <1>1, <2>2 DEF Typed
  <2> DEFINE g == [e EXCEPT !.ref = @ + 1]
  <2>4. PICK t : t = [s EXCEPT !.icache[r].ref = @ + 1]
    OBVIOUS
  <2>5. got = Returns(t, r)
    BY <1>2, <1>4, <2>1, <2>4 DEF iget
  <2>6. t = [s EXCEPT !.icache = [s.icache EXCEPT ![r] = g]]
    BY <1>1, <2>2, <2>3, <2>4 DEF Typed, CNode
  <2>7. /\ g \in CNode /\ g.ref > 0 /\ g.inum = i /\ g.flags = e.flags /\ g.type = e.type /\ g.nlink = e.nlink
    BY <2>2, <2>3 DEF CNode
  <2> HIDE DEF g
  <2>8. Busy(g) => Valid(g)
    BY <1>1, <2>2, <2>3, <2>7 DEF SlotsOK, Busy, Valid
  <2>9. Valid(g) => s.dinode[i].type = g.type /\ s.dinode[i].nlink = g.nlink
    BY <1>1, <2>2, <2>3, <2>7 DEF SlotsOK, Matches, Valid
  <2>10. got.s = t /\ got.r = r
    BY <2>5 DEF Returns
  <2>11. Safe(s, t) /\ t.dinode = s.dinode
    BY <1>3, <2>2, <2>6, <2>7, <2>8, <2>9, <2>10, SlotSafe
  <2>12. t.icache[r] = g
    BY <1>1, <2>2, <2>6 DEF Typed
  <2>13. QED  BY <1>2, <2>2, <2>7, <2>10, <2>11, <2>12
<1>5. CASE found = {} /\ empty = {}
  <2>1. got.s = s /\ got.r = NULL
    BY <1>2, <1>5 DEF iget, Returns
  <2>2. QED  BY <1>2, <2>1, SafeAll
<1>6. CASE found = {} /\ empty # {}
  <2>1. PICK r : r = Min(empty)
    OBVIOUS
  <2>2. r \in empty
    BY <1>1, <1>6, <2>1, MinIs
  <2>3. PICK e \in CNode : e = s.icache[r]
    BY <1>1, <2>2 DEF Typed
  <2> DEFINE g == [e EXCEPT !.inum = i, !.ref = 1, !.flags = {}]
  <2>4. PICK t : t = [s EXCEPT !.icache[r] = [@ EXCEPT !.inum = i, !.ref = 1, !.flags = {}]]
    OBVIOUS
  <2>5. got = Returns(t, r)
    BY <1>2, <1>6, <2>1, <2>4 DEF iget
  <2>6. t = [s EXCEPT !.icache = [s.icache EXCEPT ![r] = g]]
    BY <1>1, <2>2, <2>3, <2>4 DEF Typed, CNode
  <2>7. g \in CNode /\ g.ref = 1 /\ g.inum = i /\ g.flags = {}
    BY Sizes DEF CNode
  <2> HIDE DEF g
  <2>8. got.s = t /\ got.r = r
    BY <2>5 DEF Returns
  <2>9. ~Busy(g) /\ ~Valid(g)
    BY <2>7 DEF Busy, Valid
  <2>10. Safe(s, t) /\ t.dinode = s.dinode
    BY <1>3, <2>2, <2>6, <2>7, <2>8, <2>9, SlotSafe
  <2>11. t.icache[r] = g
    BY <1>1, <2>2, <2>6 DEF Typed
  <2>12. QED  BY <1>2, <2>2, <2>7, <2>8, <2>10, <2>11
<1>7. QED  BY <1>4, <1>5, <1>6

\* A free inode is nobody's.
LEMMA IallocSafe ==
  ASSUME NEW s, LInv(s), NEW type \in Types \ {"free"} PROVE Safe(s, ialloc(s, type).s)
<1> DEFINE free == {i \in Inodes : s.dinode[i].type = "free"}
<1>1. Typed(s) /\ OneSlot(s) /\ LinksOK(s.dinode, s.data) /\ SlotsOK(s)
  BY DEF LInv
<1>2. CASE free = {}
  BY <1>2, SafeAll DEF ialloc, Returns
<1>3. CASE free # {}
  <2>1. PICK i : i = Min(free)
    OBVIOUS
  <2>2. i \in Inodes /\ s.dinode[i].type = "free"
    <3>1. free \subseteq Nat
      BY Sizes
    <3>2. i \in free
      BY <1>3, <2>1, <3>1, MinIs
    <3>3. QED  BY <3>2
  <2>3. PICK d : d = [FreeDinode EXCEPT !.type = type]
    OBVIOUS
  <2>4. d \in DNode /\ d.type = type /\ d.nlink = 0
    BY <2>3, Sizes DEF FreeDinode, DNode, Addrs
  <2>5. PICK t : t = [s EXCEPT !.dinode[i] = d]
    OBVIOUS
  <2>6. t.dinode = [s.dinode EXCEPT ![i] = d] /\ t.data = s.data /\ t.icache = s.icache /\ DOMAIN s.dinode = Inodes
    BY <1>1, <2>5 DEF Typed, DiskOK
  <2>7. Typed(t)
    BY <1>1, <2>2, <2>4, <2>5 DEF Typed, DiskOK
  <2>8. LinksOK(t.dinode, t.data)
    <3>1. ~NamedIn(s.data, i) /\ i # ROOTINO
      BY <1>1, <2>2 DEF LinksOK
    <3>2. QED  BY <1>1, <2>2, <2>4, <2>6, <3>1, Sizes DEF LinksOK
  <2>9. SlotsOK(t)
    <3>1. ASSUME NEW ip \in Slots, s.icache[ip].ref > 0
          PROVE  t.dinode[s.icache[ip].inum] = s.dinode[s.icache[ip].inum]
      BY <1>1, <2>2, <2>6, <3>1 DEF SlotsOK, Typed
    <3>2. QED  BY <1>1, <2>6, <3>1 DEF SlotsOK, Matches
  <2>10. Safe(s, t)
    BY <1>1, <2>4, <2>6, <2>7, <2>8, <2>9 DEF Safe, LInv, NoneFreed, OneSlot
  <2>11. t.dinode[i].type # "free"
    BY <2>2, <2>4, <2>6
  <2>12. Safe(t, iget(t, i).s)
    BY <2>2, <2>10, <2>11, IgetSafe DEF Safe
  <2>13. ialloc(s, type) = iget(t, i)
    BY <1>3, <2>1, <2>3, <2>5 DEF ialloc
  <2>14. QED  BY <2>10, <2>12, <2>13, SafeMore
<1>4. QED  BY <1>2, <1>3

LEMMA IdupSafe == ASSUME NEW s, LInv(s), NEW ip \in Slots, s.icache[ip].ref > 0 PROVE Safe(s, idup(s, ip))
<1>1. Typed(s) /\ OneSlot(s) /\ SlotsOK(s)
  BY DEF LInv
<1>2. PICK e \in CNode : e = s.icache[ip]
  BY <1>1 DEF Typed
<1>3. PICK t : t = idup(s, ip)
  OBVIOUS
<1> DEFINE g == [e EXCEPT !.ref = @ + 1]
<1>4. t = [s EXCEPT !.icache = [s.icache EXCEPT ![ip] = g]]
  BY <1>1, <1>2, <1>3 DEF Typed, idup
<1>5. g \in CNode /\ g.inum = e.inum /\ g.flags = e.flags /\ g.type = e.type /\ g.nlink = e.nlink /\ e.inum \in Inodes
  BY <1>1, <1>2 DEF CNode, Typed
<1> HIDE DEF g
<1>6. OneSlot(t)
  <2>1. Got(s, t, ip) 
    BY <1>1, <1>3, IdupGains DEF Got
  <2>2. QED  BY <1>1, <2>1, GotGrows DEF Grew
<1>7. /\ Busy(g) => Valid(g)
      /\ s.dinode[g.inum].type # "free"
      /\ Valid(g) => s.dinode[g.inum].type = g.type /\ s.dinode[g.inum].nlink = g.nlink
  BY <1>1, <1>2, <1>5 DEF SlotsOK, Matches, Busy, Valid
<1>8. Safe(s, t)
  BY <1>4, <1>5, <1>6, <1>7, SlotSafe
<1>9. QED  BY <1>3, <1>8

LEMMA IunlockSafe == ASSUME NEW s, LInv(s), NEW ip \in Slots PROVE Safe(s, iunlock(s, ip))
<1>1. Typed(s) /\ OneSlot(s) /\ SlotsOK(s)
  BY DEF LInv
<1>2. PICK e \in CNode : e = s.icache[ip]
  BY <1>1 DEF Typed
<1>3. PICK t : t = iunlock(s, ip)
  OBVIOUS
<1>4. CASE t = s
  BY <1>3, <1>4, SafeAll
<1>5. CASE t # s
  <2> DEFINE g == [e EXCEPT !.flags = @ \ {"BUSY"}]
  <2>1. t = [s EXCEPT !.icache = [s.icache EXCEPT ![ip] = g]]
    BY <1>1, <1>2, <1>3, <1>5 DEF iunlock, Typed
  <2>2. /\ g \in CNode /\ g.ref = e.ref /\ g.inum = e.inum /\ ~Busy(g) /\ g.type = e.type /\ g.nlink = e.nlink
        /\ Valid(g) => Valid(e)
    BY DEF CNode, Busy, Valid
  <2> HIDE DEF g
  <2>3. OneSlot(t)
    BY <1>1, <1>2, <2>1, <2>2, OneSlotStays
  <2>4. g.ref > 0 => g.inum \in Inodes /\ s.dinode[g.inum].type # "free"
    BY <1>1, <1>2, <2>2 DEF SlotsOK, Typed
  <2>5. g.ref > 0 /\ Valid(g) => s.dinode[g.inum].type = g.type /\ s.dinode[g.inum].nlink = g.nlink
    BY <1>1, <1>2, <2>2 DEF SlotsOK, Matches
  <2>6. Safe(s, t)
    BY <2>1, <2>2, <2>3, <2>4, <2>5, SlotSafe
  <2>7. QED  BY <1>3, <2>6
<1>6. QED  BY <1>4, <1>5

LEMMA IlockSafe ==
  ASSUME NEW s, LInv(s), NEW ip \in Slots, s.icache[ip].ref > 0
  PROVE  LET t == ilock(s, ip)
         IN  Safe(s, t) /\ Valid(t.icache[ip]) /\ t.icache[ip].ref > 0 /\ Matches(t, ip) /\ t.dinode = s.dinode
<1>1. Typed(s) /\ OneSlot(s) /\ SlotsOK(s)
  BY DEF LInv
<1>2. PICK e \in CNode : e = s.icache[ip]
  BY <1>1 DEF Typed
<1>3. PICK d \in DNode : d = s.dinode[e.inum]
  BY <1>1, <1>2 DEF Typed, DiskOK
<1>4. PICK t : t = ilock(s, ip)
  OBVIOUS
<1>5. ip # NULL /\ ~(e.ref < 1)
  BY <1>2, Sizes DEF CNode
<1> DEFINE g == IF Valid(e) THEN [e EXCEPT !.flags = @ \cup {"BUSY"}]
                ELSE [e EXCEPT !.flags = {"BUSY", "VALID"}, !.type = d.type, !.nlink = d.nlink,
                               !.size = d.size, !.addrs = d.addrs]
<1>6. t = [s EXCEPT !.icache = [s.icache EXCEPT ![ip] = g]]
  BY <1>1, <1>2, <1>3, <1>4, <1>5 DEF ilock, Typed, Valid
<1>7. g \in CNode /\ g.ref = e.ref /\ g.inum = e.inum /\ Valid(g)
  <2>1. CASE Valid(e)
    BY <2>1 DEF CNode, Valid
  <2>2. CASE ~Valid(e)
    BY <2>2 DEF CNode, DNode, Valid
  <2>3. QED  BY <2>1, <2>2
<1>8. d.type = g.type /\ d.nlink = g.nlink
  <2>1. CASE Valid(e)
    BY <1>1, <1>2, <1>3, <2>1 DEF SlotsOK, Matches, CNode
  <2>2. CASE ~Valid(e)
    BY <2>2 DEF CNode
  <2>3. QED  BY <2>1, <2>2
<1> HIDE DEF g
<1>9. OneSlot(t)
  BY <1>1, <1>2, <1>6, <1>7, OneSlotStays
<1>10. g.inum \in Inodes /\ s.dinode[g.inum].type # "free"
  BY <1>1, <1>2, <1>7 DEF SlotsOK, Typed
<1>11. Safe(s, t) /\ t.dinode = s.dinode
  BY <1>3, <1>6, <1>7, <1>8, <1>9, <1>10, SlotSafe
<1>12. t.icache[ip] = g
  BY <1>1, <1>6 DEF Typed
<1>13. QED  BY <1>2, <1>3, <1>4, <1>7, <1>8, <1>11, <1>12 DEF Matches

\* The links of an inode that is named stay more than none.
LEMMA SetLinksSafe ==
  ASSUME NEW s, LInv(s), NEW ip \in Slots, s.icache[ip].ref > 0, Valid(s.icache[ip]), NEW n \in Nat,
         n > 0 \/ (s.icache[ip].inum # ROOTINO /\ ~NamedIn(s.data, s.icache[ip].inum))
  PROVE  Safe(s, iupdate([s EXCEPT !.icache[ip].nlink = n], ip))
<1>1. Typed(s) /\ OneSlot(s) /\ LinksOK(s.dinode, s.data) /\ SlotsOK(s)
  BY DEF LInv
<1>2. PICK e \in CNode : e = s.icache[ip]
  BY <1>1 DEF Typed
<1>3. PICK i \in Inodes : i = e.inum
  BY <1>1, <1>2 DEF Typed
<1> DEFINE g == [e EXCEPT !.nlink = n]
<1>4. PICK t : t = [s EXCEPT !.icache[ip].nlink = n]
  OBVIOUS
<1>5. t = [s EXCEPT !.icache = [s.icache EXCEPT ![ip] = g]]
  BY <1>1, <1>2, <1>4 DEF Typed
<1>6. g \in CNode /\ SameUse(e, g) /\ g.type = e.type /\ g.nlink = n
  BY DEF CNode, SameUse
<1> HIDE DEF g
<1>7. Keeps(s, t) /\ Typed(t)
  BY <1>1, <1>2, <1>5, <1>6, EntryKeeps DEF Keeps
<1>8. PICK u : u = iupdate(t, ip)
  OBVIOUS
<1>9. Typed(u) /\ OneSlot(u)
  <2>1. Leaves(t, u)
    BY <1>7, <1>8, IupdateLeaves
  <2>2. Keeps(s, u)
    BY <1>7, <2>1, LeavesKeeps, KeepsMore
  <2>3. QED  BY <1>1, <2>2 DEF Keeps, SameUse, OneSlot
<1>10. t.icache = [s.icache EXCEPT ![ip] = g] /\ t.dinode = s.dinode /\ t.data = s.data /\ DOMAIN s.icache = Slots
  BY <1>1, <1>5 DEF Typed
<1>11. PICK d : d = OnDisk(g)
  OBVIOUS
<1>12. u.dinode = [s.dinode EXCEPT ![i] = d] /\ u.data = s.data /\ u.icache = t.icache /\ DOMAIN s.dinode = Inodes
  BY <1>1, <1>2, <1>3, <1>6, <1>7, <1>8, <1>10, <1>11 DEF iupdate, Typed, DiskOK, SameUse
<1>13. d.type = e.type /\ d.nlink = n /\ e.type # "free"
  BY <1>1, <1>2, <1>3, <1>6, <1>11 DEF OnDisk, SlotsOK, Matches
<1>14. LinksOK(u.dinode, u.data)
  BY <1>1, <1>2, <1>3, <1>12, <1>13, Sizes DEF LinksOK
<1>15. SlotsOK(u)
  <2> SUFFICES ASSUME NEW other \in Slots
               PROVE  /\ Busy(u.icache[other]) => Valid(u.icache[other])
                      /\ u.icache[other].ref > 0 => u.dinode[u.icache[other].inum].type # "free"
                      /\ u.icache[other].ref > 0 /\ Valid(u.icache[other]) => Matches(u, other)
    BY DEF SlotsOK
  <2>1. CASE other = ip
    <3>1. u.icache[ip] = g /\ u.dinode[i] = d
      BY <1>10, <1>12
    <3>2. g.inum = i /\ g.flags = e.flags
      BY <1>3, <1>6 DEF SameUse
    <3>3. QED  BY <1>1, <1>2, <1>6, <1>13, <2>1, <3>1, <3>2 DEF SlotsOK, Matches, Busy, Valid
  <2>2. CASE other # ip
    <3>1. u.icache[other] = s.icache[other]
      BY <1>10, <1>12, <2>2
    <3>2. s.icache[other].ref > 0 => s.icache[other].inum # i
      BY <1>1, <1>2, <1>3, <2>2 DEF OneSlot
    <3>3. s.icache[other].ref > 0 => u.dinode[s.icache[other].inum] = s.dinode[s.icache[other].inum]
      BY <1>1, <1>12, <3>2 DEF Typed
    <3>4. QED  BY <1>1, <3>1, <3>3 DEF SlotsOK, Matches
  <2>3. QED  BY <2>1, <2>2
<1>16. NoneFreed(s.dinode, u.dinode)
  BY <1>12, <1>13 DEF NoneFreed
<1>17. QED  BY <1>4, <1>8, <1>9, <1>14, <1>15, <1>16 DEF Safe, LInv

-----------------------------------------------------------------------------
\* A lookup's result is linked, for it is named.
LEMMA DirlookupSafe ==
  ASSUME NEW s, LInv(s), NEW dp \in Slots, NEW name \in Name
  PROVE  LET got == dirlookup(s, dp, name)
         IN  /\ Safe(s, got.s) /\ SameLinks(s.dinode, got.s.dinode)
             /\ got.r # NULL => got.r \in Slots /\ HasLinks(got.s, got.r)
<1>1. PICK got : got = dirlookup(s, dp, name)
  OBVIOUS
<1>2. CASE s.icache[dp].type # "dir"
  <2>1. got.s = s /\ got.r = NULL
    BY <1>1, <1>2 DEF dirlookup, Returns
  <2>2. QED  BY <1>1, <2>1, SafeAll DEF SameLinks
<1>3. CASE s.icache[dp].type = "dir"
  <2>1. PICK hit : hit = Entries(s, dp, name)
    OBVIOUS
  <2>2. Typed(s)
    BY DEF LInv
  <2>3. /\ Keeps(s, hit.s) /\ Alike(s, hit.s, {}) /\ Typed(hit.s)
        /\ hit.at # s.icache[dp].size => ReadFrom(hit.s, hit.de) /\ Wanted(hit.de, name)
    <3>1. Leaves(s, hit.s)
      BY <1>3, <2>1, <2>2, EntriesLeaves
    <3>2. /\ Alike(s, hit.s, {})
          /\ hit.at # s.icache[dp].size => ReadFrom(hit.s, hit.de) /\ Wanted(hit.de, name)
      BY <1>3, <2>1, <2>2, EntriesAlike
    <3>3. QED  BY <3>1, <3>2, LeavesKeeps DEF Leaves
  <2>4. Safe(s, hit.s) /\ LInv(hit.s) /\ SameLinks(s.dinode, hit.s.dinode)
    <3>1. Safe(s, hit.s)
      BY <2>3, AlikeSafe
    <3>2. QED  BY <2>3, <3>1 DEF Safe, Alike
  <2>5. CASE hit.at = s.icache[dp].size
    <3>1. got.s = hit.s /\ got.r = NULL
      BY <1>1, <1>3, <2>1, <2>5 DEF dirlookup, Returns
    <3>2. QED  BY <1>1, <2>4, <3>1
  <2>6. CASE hit.at # s.icache[dp].size
    <3>1. PICK i : i = hit.de.num
      OBVIOUS
    <3>2. PICK b \in Blocks, o \in InBlock : hit.s.data[b][o] = hit.de
      BY <2>3, <2>6 DEF ReadFrom
    <3>3. hit.de \in Stored
      BY <2>3, <3>2 DEF Typed, DiskOK
    <3>4. name # NoName /\ Cut[name] \in Name
      BY DiskAssumption DEF NoName
    <3>5. i # 0 /\ hit.de.name \in Name
      BY <2>3, <2>6, <3>1, <3>4 DEF Wanted, namecmp
    <3>6. i \in Inodes /\ NamedIn(hit.s.data, i)
      BY <3>1, <3>2, <3>3, <3>5 DEF Stored, NamedIn
    <3>7. hit.s.dinode[i].nlink > 0 /\ hit.s.dinode[i].type # "free"
      BY <2>4, <3>6 DEF LInv, LinksOK
    <3>8. got = iget(hit.s, i)
      BY <1>1, <1>3, <2>1, <2>6, <3>1 DEF dirlookup
    <3>9. /\ Safe(hit.s, got.s) /\ got.s.dinode = hit.s.dinode
          /\ got.r # NULL => got.r \in Slots /\ got.s.icache[got.r].ref > 0 /\ got.s.icache[got.r].inum = i
      BY <2>4, <3>6, <3>7, <3>8, IgetSafe
    <3>10. Safe(s, got.s) /\ SameLinks(s.dinode, got.s.dinode)
      BY <2>4, <3>9, SafeMore
    <3>11. QED  BY <1>1, <3>7, <3>9, <3>10 DEF HasLinks
  <2>7. QED  BY <2>5, <2>6
<1>4. QED  BY <1>2, <1>3

LEMMA ReadiSafe ==
  ASSUME NEW s, LInv(s), NEW ip \in Slots, NEW off \in Nat, NEW n \in Nat
  PROVE  Safe(s, readi(s, ip, off, n).s)
<1>1. Typed(s)
  BY DEF LInv
<1>2. Leaves(s, readi(s, ip, off, n).s)
  BY <1>1, ReadiRefuses, ReadiReads
<1>3. Alike(s, readi(s, ip, off, n).s, {})
  BY <1>1, ReadiAlike
<1>4. QED  BY <1>2, <1>3, LeavesKeeps, AlikeSafe

\* What is written is data, or names an inode that is linked.
LEMMA WriteiSafe ==
  ASSUME NEW s, LInv(s), NEW ip \in Slots, s.icache[ip].ref > 0, Valid(s.icache[ip]),
         NEW off \in Nat, NEW n \in Nat, NEW cell \in Stored,
         cell.name \in Name => cell.num \in Inodes /\ s.dinode[cell.num].nlink > 0
  PROVE  Safe(s, writei(s, ip, off, n, cell).s)
<1>1. Typed(s) /\ Matches(s, ip)
  BY DEF LInv, SlotsOK
<1>2. PICK X : X = IF cell.name \in Name THEN {cell.num} ELSE {}
  OBVIOUS
<1>3. PICK t : t = writei(s, ip, off, n, cell).s
  OBVIOUS
<1>4. Keeps(s, t)
  BY <1>1, <1>3, WriteiKeeps
<1>5. Alike(s, t, X)
  BY <1>1, <1>2, <1>3, WriteiAlike
<1>6. \A i \in Inodes \cap X : s.dinode[i].nlink > 0
  BY <1>2
<1>7. QED  BY <1>3, <1>4, <1>5, <1>6, AlikeSafe

LEMMA LinkedSafe ==
  ASSUME NEW s, LInv(s), NEW dp \in Slots, s.icache[dp].type = "dir", s.icache[dp].ref > 0,
         Valid(s.icache[dp]), NEW name \in Name, NEW i \in Inodes, s.dinode[i].nlink > 0
  PROVE  Safe(s, Linked(s, dp, name, i).s)
<1>1. PICK hit : hit = Entries(s, dp, NoName)
  OBVIOUS
<1>2. Typed(s)
  BY DEF LInv
<1>3. Leaves(s, hit.s) /\ hit.at \in 0 .. s.icache[dp].size /\ Alike(s, hit.s, {})
  <2>1. Leaves(s, hit.s) /\ hit.at \in 0 .. s.icache[dp].size
    BY <1>1, <1>2, EntriesLeaves
  <2>2. Alike(s, hit.s, {})
    BY <1>1, <1>2, EntriesAlike
  <2>3. QED  BY <2>1, <2>2
<1>4. Safe(s, hit.s) /\ LInv(hit.s)
  BY <1>3, LeavesKeeps, AlikeSafe DEF Safe
<1>5. hit.at \in Nat
  BY <1>2, <1>3, CNodeFields, Sizes DEF Typed
<1>6. hit.s.icache[dp].ref > 0 /\ Valid(hit.s.icache[dp]) /\ hit.s.dinode[i].nlink > 0
  BY <1>3 DEF Leaves, SameNode, SameUse, Valid, Alike, SameLinks
<1>7. PICK cell : cell = Dirent(name, i)
  OBVIOUS
<1>8. cell \in Stored /\ cell.num = i
  BY <1>7, DiskAssumption, Sizes DEF Dirent, Stored
<1>9. PICK write : write = writei(hit.s, dp, hit.at, 1, cell)
  OBVIOUS
<1>10. Safe(hit.s, write.s)
  BY <1>4, <1>5, <1>6, <1>8, <1>9, WriteiSafe
<1>11. Linked(s, dp, name, i).s = write.s
  BY <1>1, <1>7, <1>9 DEF Linked, Returns
<1>12. QED  BY <1>4, <1>10, <1>11, SafeMore

-----------------------------------------------------------------------------
(***************************************************************************)
(* Freeing: the last reference to an inode without links.                  *)
(***************************************************************************)
Frees(s, t, ip) ==
  /\ s.icache[ip].ref = 1 /\ Valid(s.icache[ip]) /\ s.icache[ip].nlink = 0
  /\ Dropped(s, t, ip)
  /\ \A i \in Inodes : i # s.icache[ip].inum /\ s.dinode[i].type # "free" => t.dinode[i].type # "free"

LEMMA IputFrees ==
  ASSUME NEW s, LInv(s), NEW ip \in Slots, s.icache[ip].ref > 0
  PROVE  LET t == iput(s, ip)
         IN  LInv(t) /\ (NoneFreed(s.dinode, t.dinode) \/ Frees(s, t, ip))
<1>0. Typed(s) /\ OneSlot(s) /\ LinksOK(s.dinode, s.data) /\ SlotsOK(s)
  BY DEF LInv
<1>1. PICK t : t = iput(s, ip)
  OBVIOUS
<1>2. PICK e \in CNode : e = s.icache[ip]
  BY <1>0 DEF Typed
<1>3. CASE t = s
  BY <1>1, <1>3 DEF NoneFreed
<1>4. CASE t = [s EXCEPT !.icache[ip].ref = @ - 1]
  <2>1. PICK n \in Nat : n = e.ref - 1
    BY <1>2, CNodeFields
  <2> DEFINE g == [e EXCEPT !.ref = n]
  <2>2. t = [s EXCEPT !.icache = [s.icache EXCEPT ![ip] = g]]
    BY <1>0, <1>2, <1>4, <2>1 DEF Typed
  <2>3. /\ g \in CNode /\ g.ref = e.ref - 1 /\ g.inum = e.inum /\ g.flags = e.flags /\ g.type = e.type /\ g.nlink = e.nlink
    BY <2>1 DEF CNode
  <2> HIDE DEF g
  <2>4. OneSlot(t)
    <3>1. Dropped(s, t, ip)
      BY <1>0, <1>2, <2>2, <2>3, EntryDropped
    <3>2. QED  BY <1>0, <3>1, DroppedOneSlot
  <2>5. /\ Busy(g) => Valid(g)
        /\ g.inum \in Inodes /\ s.dinode[g.inum].type # "free"
        /\ Valid(g) => s.dinode[g.inum].type = g.type /\ s.dinode[g.inum].nlink = g.nlink
    BY <1>0, <1>2, <2>3 DEF SlotsOK, Matches, Busy, Valid, Typed
  <2>6. Safe(s, t)
    BY <2>2, <2>3, <2>4, <2>5, SlotSafe
  <2>7. QED  BY <1>1, <2>6 DEF Safe
<1>5. CASE e.ref = 1 /\ Valid(e) /\ e.nlink = 0 /\ ~Busy(e)
  <2>1. Dropped(s, t, ip)
    <3>1. Put(s, t, ip)
      BY <1>0, <1>1, IputPuts
    <3>2. QED  BY <1>2, <1>5, <3>1 DEF Put
  <2>2. PICK trunc : trunc = itrunc(s, ip)
    OBVIOUS
  <2>3. Keeps(s, trunc) /\ Alike(s, trunc, {}) /\ Typed(trunc) /\ Safe(s, trunc)
    <3>1. Matches(s, ip)
      BY <1>0, <1>2, <1>5 DEF SlotsOK
    <3>2. Keeps(s, trunc) /\ Alike(s, trunc, {})
      BY <1>0, <2>2, <3>1, ItruncKeeps, ItruncAlike
    <3>3. Safe(s, trunc)
      BY <3>2, AlikeSafe
    <3>4. QED  BY <3>2, <3>3 DEF Keeps
  <2>4. PICK i \in Inodes : i = e.inum
    BY <1>0, <1>2 DEF Typed
  <2>5. PICK typed : typed = [trunc EXCEPT !.icache[ip].type = "free"]
    OBVIOUS
  <2>6. t = [iupdate(typed, ip) EXCEPT !.icache[ip].flags = {}, !.icache[ip].ref = @ - 1]
    BY <1>1, <1>2, <1>5, <2>2, <2>5 DEF iput, Busy, Valid
  <2>7. PICK c \in CNode : c = trunc.icache[ip]
    BY <2>3 DEF Typed
  <2>8. c.inum = i /\ c.nlink = 0
    BY <1>2, <1>5, <2>3, <2>4, <2>7 DEF Keeps, SameUse, Alike
  <2> DEFINE g == [c EXCEPT !.type = "free"]
  <2>9. /\ typed.icache = [trunc.icache EXCEPT ![ip] = g] /\ typed.dinode = trunc.dinode /\ typed.data = trunc.data
        /\ DOMAIN typed = DOMAIN trunc /\ DOMAIN trunc.icache = Slots /\ DOMAIN trunc.dinode = Inodes
    BY <2>3, <2>5, <2>7 DEF Typed, DiskOK
  <2>10. g.inum = i /\ g.type = "free" /\ g.nlink = 0
    BY <2>8 DEF CNode
  <2> HIDE DEF g
  <2>11. PICK d : d = OnDisk(g)
    OBVIOUS
  <2>12. PICK saved : saved = iupdate(typed, ip)
    OBVIOUS
  <2>13. /\ saved.dinode = [trunc.dinode EXCEPT ![i] = d] /\ saved.icache = typed.icache /\ saved.data = trunc.data
         /\ DOMAIN saved = DOMAIN trunc
    BY <2>3, <2>9, <2>10, <2>11, <2>12 DEF iupdate, Typed
  <2>14. d.type = "free" /\ d.nlink = 0
    BY <2>10, <2>11 DEF OnDisk
  <2>15. /\ t.dinode = [trunc.dinode EXCEPT ![i] = d] /\ t.data = trunc.data
         /\ \A other \in Slots \ {ip} : t.icache[other] = trunc.icache[other]
         /\ t.icache[ip].flags = {}
    <3>1. Keeps(trunc, typed) /\ Typed(typed)
      <4>1. g \in CNode /\ SameUse(c, g) /\ typed = [trunc EXCEPT !.icache = [trunc.icache EXCEPT ![ip] = g]]
        BY <2>3, <2>5, <2>7 DEF g, CNode, Types, SameUse, Typed
      <4>2. Keeps(trunc, typed)
        BY <2>3, <2>7, <4>1, EntryKeeps
      <4>3. QED  BY <4>2 DEF Keeps
    <3>2. Typed(saved)
      BY <2>12, <3>1, IupdateLeaves DEF Leaves
    <3>3. PICK e1 \in CNode : e1 = saved.icache[ip]
      BY <3>2 DEF Typed
    <3> DEFINE h == [e1 EXCEPT !.flags = {}, !.ref = @ - 1]
    <3>4. t = [saved EXCEPT !.icache = [saved.icache EXCEPT ![ip] = h]]
      BY <2>6, <2>12, <3>2, <3>3 DEF Typed, CNode
    <3>5. h.flags = {}
      BY DEF CNode
    <3> HIDE DEF h
    <3>6. /\ t.dinode = saved.dinode /\ t.data = saved.data
          /\ t.icache = [saved.icache EXCEPT ![ip] = h] /\ DOMAIN saved.icache = Slots
      BY <3>2, <3>4 DEF Typed
    <3>7. QED  BY <2>9, <2>13, <3>5, <3>6
  <2>16. LInv(trunc) /\ LinksOK(trunc.dinode, trunc.data) /\ SlotsOK(trunc) /\ OneSlot(trunc)
    BY <2>3 DEF Safe, LInv
  <2>17. trunc.dinode[i].nlink = 0 /\ trunc.icache[ip].ref = 1
    <3>1. trunc.icache[ip].ref = 1 /\ Valid(trunc.icache[ip])
      BY <1>2, <1>5, <2>3 DEF Keeps, SameUse, Valid
    <3>2. Matches(trunc, ip)
      BY <2>16, <3>1 DEF SlotsOK
    <3>3. QED  BY <2>7, <2>8, <3>1, <3>2 DEF Matches
  <2>18. LinksOK(t.dinode, t.data)
    <3>1. ~NamedIn(trunc.data, i) /\ i # ROOTINO
      BY <2>16, <2>17 DEF LinksOK
    <3>2. QED  BY <2>9, <2>14, <2>15, <2>16, <3>1, Sizes DEF LinksOK
  <2>19. SlotsOK(t)
    <3> SUFFICES ASSUME NEW other \in Slots
                 PROVE  /\ Busy(t.icache[other]) => Valid(t.icache[other])
                        /\ t.icache[other].ref > 0 => t.dinode[t.icache[other].inum].type # "free"
                        /\ t.icache[other].ref > 0 /\ Valid(t.icache[other]) => Matches(t, other)
      BY DEF SlotsOK
    <3>1. CASE other = ip
      <4>1. t.icache[ip].ref = 0
        BY <1>2, <1>5, <2>1 DEF Dropped
      <4>2. QED  BY <2>15, <3>1, <4>1 DEF Busy
    <3>2. CASE other # ip
      <4>1. t.icache[other] = trunc.icache[other]
        BY <2>15, <3>2
      <4>2. trunc.icache[other].ref > 0 => trunc.icache[other].inum # i
        BY <2>7, <2>8, <2>16, <2>17, <3>2 DEF OneSlot
      <4>3. trunc.icache[other].ref > 0 => t.dinode[trunc.icache[other].inum] = trunc.dinode[trunc.icache[other].inum]
        BY <2>3, <2>9, <2>15, <4>2 DEF Typed
      <4>4. QED  BY <2>16, <4>1, <4>3 DEF SlotsOK, Matches
    <3>3. QED  BY <3>1, <3>2
  <2>20. LInv(t)
    <3>1. OneSlot(t)
      BY <1>0, <2>1, DroppedOneSlot
    <3>2. QED  BY <2>1, <2>18, <2>19, <3>1 DEF LInv, Dropped
  <2>21. \A j \in Inodes : j # i /\ s.dinode[j].type # "free" => t.dinode[j].type # "free"
    BY <2>3, <2>9, <2>15 DEF Alike, SameLinks
  <2>22. Frees(s, t, ip)
    BY <1>2, <1>5, <2>1, <2>4, <2>21 DEF Frees
  <2>23. QED  BY <1>1, <2>20, <2>22
<1>6. QED
  <2>1. t = s \/ t = [s EXCEPT !.icache[ip].ref = @ - 1] \/ (e.ref = 1 /\ Valid(e) /\ e.nlink = 0 /\ ~Busy(e))
    BY <1>1, <1>2 DEF iput, Busy, Valid
  <2>2. QED  BY <1>3, <1>4, <1>5, <2>1

\* A slot for a linked inode is not freed.
LEMMA IputSafe == ASSUME NEW s, LInv(s), NEW ip \in Slots, HasLinks(s, ip) PROVE Safe(s, iput(s, ip))
<1>1. PICK t : t = iput(s, ip)
  OBVIOUS
<1>2. LInv(t) /\ (NoneFreed(s.dinode, t.dinode) \/ Frees(s, t, ip))
  BY <1>1, IputFrees DEF HasLinks
<1>3. ~Frees(s, t, ip)
  BY DEF Frees, HasLinks, LInv, SlotsOK, Matches
<1>4. QED  BY <1>1, <1>2, <1>3 DEF Safe

LEMMA DirlinkSafe ==
  ASSUME NEW s, LInv(s), NEW dp \in Slots, s.icache[dp].type = "dir", s.icache[dp].ref > 0,
         Valid(s.icache[dp]), NEW name \in Name, NEW i \in Inodes, s.dinode[i].nlink > 0
  PROVE  Safe(s, dirlink(s, dp, name, i).s)
<1>1. PICK old : old = dirlookup(s, dp, name)
  OBVIOUS
<1>2. /\ Safe(s, old.s) /\ SameLinks(s.dinode, old.s.dinode) /\ LInv(old.s)
      /\ old.r # NULL => old.r \in Slots /\ HasLinks(old.s, old.r)
  BY <1>1, DirlookupSafe DEF Safe
<1>3. CASE old.r = NULL
  <2>1. Leaves(s, old.s)
    <3>1. Got(s, old.s, old.r)
      BY <1>1, DirlookupGets DEF LInv
    <3>2. QED  BY <1>3, <3>1, Sizes DEF Got
  <2>2. /\ old.s.icache[dp].type = "dir" /\ old.s.icache[dp].ref > 0 /\ Valid(old.s.icache[dp])
        /\ old.s.dinode[i].nlink > 0
    BY <1>2, <2>1 DEF Leaves, SameNode, SameUse, Valid, SameLinks
  <2>3. dirlink(s, dp, name, i) = Linked(old.s, dp, name, i)
    BY <1>1, <1>3 DEF dirlink
  <2>4. QED  BY <1>2, <2>2, <2>3, LinkedSafe, SafeMore
<1>4. CASE old.r # NULL
  <2>1. PICK t : t = iput(old.s, old.r)
    OBVIOUS
  <2>2. dirlink(s, dp, name, i).s = t
    BY <1>1, <1>4, <2>1 DEF dirlink, Returns
  <2>3. Safe(old.s, t)
    BY <1>2, <1>4, <2>1, IputSafe
  <2>4. QED  BY <1>2, <2>2, <2>3, SafeMore
<1>5. QED  BY <1>3, <1>4

\* Who walks is at a linked inode.
WalkingSafe(s, x) ==
  /\ Safe(s, x.s) /\ DOMAIN x = {"s", "ip", "done"}
  /\ ~x.done => x.ip \in Slots /\ HasLinks(x.s, x.ip)

LEMMA NameWalkedSafe ==
  ASSUME NEW s, LInv(s), NEW x, WalkingSafe(s, x), NEW path, NEW parent, NEW k,
         skipelem(SubSeq(path, k, Len(path))).name \in Name
  PROVE  WalkingSafe(s, NameWalked(x, path, parent, k))
<1>1. PICK elem : elem = skipelem(SubSeq(path, k, Len(path)))
  OBVIOUS
<1>2. PICK y : y = NameWalked(x, path, parent, k)
  OBVIOUS
<1>3. PICK next : next = dirlookup(x.s, x.ip, elem.name)
  OBVIOUS
<1>4. \/ y = x
      \/ y = [x EXCEPT !.done = TRUE, !.ip = NULL]
      \/ y = [x EXCEPT !.done = TRUE]
      \/ ~x.done /\ y = [s |-> next.s, ip |-> next.r, done |-> next.r = NULL]
  BY <1>1, <1>2, <1>3 DEF NameWalked
<1>5. WalkingSafe(s, y)
  <2>1. CASE y = x
    BY <2>1
  <2>2. CASE y = [x EXCEPT !.done = TRUE, !.ip = NULL]
    BY <2>2 DEF WalkingSafe
  <2>3. CASE y = [x EXCEPT !.done = TRUE]
    BY <2>3 DEF WalkingSafe
  <2>4. CASE ~x.done /\ y = [s |-> next.s, ip |-> next.r, done |-> next.r = NULL]
    <3>1. x.ip \in Slots /\ LInv(x.s) /\ Safe(s, x.s)
      BY <2>4 DEF WalkingSafe, Safe
    <3>2. Safe(x.s, next.s) /\ (next.r # NULL => next.r \in Slots /\ HasLinks(next.s, next.r))
      BY <1>1, <1>3, <3>1, DirlookupSafe
    <3>3. Safe(s, next.s)
      BY <3>1, <3>2, SafeMore
    <3>4. y.s = next.s /\ y.ip = next.r /\ y.done = (next.r = NULL) /\ DOMAIN y = {"s", "ip", "done"}
      BY <2>4
    <3>5. QED  BY <3>2, <3>3, <3>4 DEF WalkingSafe
  <2>5. QED  BY <1>4, <2>1, <2>2, <2>3, <2>4
<1>6. QED  BY <1>2, <1>5

LEMMA NamexSafe ==
  ASSUME NEW s, LInv(s), iget(s, ROOTINO).r # NULL, NEW path \in Seq(Name), NEW parent \in BOOLEAN
  PROVE  Safe(s, namex(s, path, parent).s)
<1>1. PICK n \in Nat : n = Len(path)
  OBVIOUS
<1>2. PICK f : Walks(f, s, path, parent, n)
  BY <1>1, WalkIs
<1> DEFINE T == {k \in 0 .. n : WalkingSafe(s, f[k])}
<1>3. 0 \in T
  <2>1. PICK root : root = iget(s, ROOTINO)
    OBVIOUS
  <2>2. s.dinode[ROOTINO].nlink > 0 /\ s.dinode[ROOTINO].type # "free"
    BY Sizes DEF LInv, LinksOK
  <2>3. /\ Safe(s, root.s) /\ root.s.dinode = s.dinode /\ root.r \in Slots
        /\ root.s.icache[root.r].ref > 0 /\ root.s.icache[root.r].inum = ROOTINO
    BY <2>1, <2>2, IgetSafe, Sizes
  <2>4. f[0] = [s |-> root.s, ip |-> root.r, done |-> FALSE]
    BY <1>2, <2>1 DEF Walks, WalkStart
  <2>5. WalkingSafe(s, f[0])
    BY <2>2, <2>3, <2>4 DEF WalkingSafe, HasLinks
  <2>6. QED  BY <1>1, <2>5
<1>4. ASSUME NEW k \in 0 .. n - 1, k \in T PROVE k + 1 \in T
  <2>1. skipelem(SubSeq(path, k + 1, Len(path))).name \in Name
    <3>1. PICK a \in 1 .. Len(path) : a = k + 1
      BY <1>1
    <3>2. PICK q : q = SubSeq(path, a, Len(path))
      OBVIOUS
    <3>3. Len(q) = Len(path) - a + 1 /\ q[1] = path[a]
      BY <3>2
    <3>4. Head(q) = path[a]
      BY <3>3 DEF Head
    <3>5. path[a] \in Name
      OBVIOUS
    <3>6. QED  BY <3>1, <3>2, <3>4, <3>5, DiskAssumption DEF skipelem
  <2>2. WalkingSafe(s, NameWalked(f[k], path, parent, k + 1))
    BY <1>4, <2>1, NameWalkedSafe
  <2>3. QED  BY <1>2, <2>2 DEF Walks
<1>5. WalkingSafe(s, f[n])
  <2>1. 0 .. n \subseteq T
    <3> HIDE DEF T
    <3> QED  BY <1>3, <1>4, IntervalInduction
  <2>2. QED  BY <2>1
<1>6. PICK x : x = f[n]
  OBVIOUS
<1>7. WalkEnd(x, parent) = namex(s, path, parent)
  BY <1>2, <1>6 DEF Walks
<1>8. CASE parent /\ ~x.done
  <2>1. namex(s, path, parent).s = iput(x.s, x.ip)
    <3>1. PICK u : u = iput(x.s, x.ip)
      OBVIOUS
    <3>2. namex(s, path, parent) = Returns(u, NULL)
      BY <1>7, <1>8, <3>1 DEF WalkEnd
    <3>3. QED  BY <3>1, <3>2 DEF Returns
  <2>2. Safe(s, x.s) /\ LInv(x.s) /\ x.ip \in Slots /\ HasLinks(x.s, x.ip)
    BY <1>5, <1>6, <1>8 DEF WalkingSafe, Safe
  <2>3. Safe(x.s, iput(x.s, x.ip))
    BY <2>2, IputSafe
  <2>4. QED  BY <2>1, <2>2, <2>3, SafeMore
<1>9. CASE ~(parent /\ ~x.done)
  <2>1. namex(s, path, parent).s = x.s
    BY <1>7, <1>9 DEF WalkEnd, Returns
  <2>2. QED  BY <1>5, <1>6, <2>1 DEF WalkingSafe
<1>10. QED  BY <1>8, <1>9

-----------------------------------------------------------------------------
(***************************************************************************)
(* Files.                                                                  *)
(***************************************************************************)
LEMMA FiledSafe == ASSUME NEW s, LInv(s), NEW f, NEW e, NEW t, Filed(s, t, f, e) PROVE Safe(s, t)
  BY DEF LInv, Filed, Safe, NoneFreed, OneSlot, SlotsOK, Matches

LEMMA MovedSafe ==
  ASSUME NEW call, LInv(call.s), NEW f \in Files, call.r \in Int,
         call.r > 0 => call.s.ftable[f].off + call.r <= MaxSize
  PROVE  Safe(call.s, Moved(call, f))
<1>1. PICK t : t = Moved(call, f)
  OBVIOUS
<1>2. Typed(call.s)
  BY DEF LInv
<1>3. Typed(t)
  BY <1>1, <1>2, MovedHolds DEF Holds
<1>4. t.dinode = call.s.dinode /\ t.data = call.s.data /\ t.icache = call.s.icache
  BY <1>1, <1>2 DEF Moved, Typed
<1>5. QED  BY <1>1, <1>3, <1>4 DEF LInv, Safe, NoneFreed, OneSlot, SlotsOK, Matches

LEMMA UnderLockSafe ==
  ASSUME NEW s, LInv(s), NEW ip \in Slots, s.icache[ip].ref > 0, NEW f \in Files,
         NEW call, Keeps(ilock(s, ip), call.s), Safe(ilock(s, ip), call.s), call.r \in Int,
         call.r > 0 => s.ftable[f].off + call.r <= MaxSize
  PROVE  Safe(s, iunlock(Moved(call, f), ip))
<1>1. PICK locked : locked = ilock(s, ip)
  OBVIOUS
<1>2. Safe(s, locked) /\ Safe(locked, call.s) /\ LInv(call.s)
  BY <1>1, IlockSafe DEF Safe
<1>3. call.s.ftable = s.ftable
  BY <1>1, IlockFlags DEF Flagged, Keeps, LInv
<1>4. PICK moved : moved = Moved(call, f)
  OBVIOUS
<1>5. Safe(call.s, moved) /\ LInv(moved)
  BY <1>2, <1>3, <1>4, MovedSafe DEF Safe
<1>6. Safe(moved, iunlock(moved, ip))
  BY <1>5, IunlockSafe
<1>7. Safe(s, moved)
  BY <1>2, <1>5, SafeMore
<1>8. QED  BY <1>4, <1>6, <1>7, SafeMore

LEMMA FilestatSafe ==
  ASSUME NEW s, LInv(s), NEW f \in Files, s.ftable[f].ip \in Slots, s.icache[s.ftable[f].ip].ref > 0
  PROVE  Safe(s, filestat(s, f))
<1>1. PICK ip \in Slots : ip = s.ftable[f].ip
  OBVIOUS
<1>2. PICK locked : locked = ilock(s, ip)
  OBVIOUS
<1>3. Safe(s, locked) /\ LInv(locked)
  BY <1>1, <1>2, IlockSafe DEF Safe
<1>4. Safe(s, iunlock(locked, ip))
  BY <1>3, IunlockSafe, SafeMore
<1>5. QED  BY <1>1, <1>2, <1>4, SafeAll DEF filestat

LEMMA FilereadSafe ==
  ASSUME NEW s, LInv(s), NEW f \in Files, s.ftable[f].ip \in Slots,
         s.icache[s.ftable[f].ip].ref > 0, NEW n \in Nat
  PROVE  Safe(s, fileread(s, f, n))
<1>1. PICK ip \in Slots : ip = s.ftable[f].ip
  OBVIOUS
<1>2. PICK off \in Nat : off = s.ftable[f].off
  BY FileFields DEF Typed, LInv
<1>3. PICK locked : locked = ilock(s, ip)
  OBVIOUS
<1>4. LInv(locked) /\ Typed(locked)
  BY <1>1, <1>3, IlockSafe DEF Safe, LInv
<1>5. PICK read : read = readi(locked, ip, off, n)
  OBVIOUS
<1>6. Keeps(locked, read.s) /\ read.r \in Int /\ (read.r > 0 => off + read.r <= MaxSize)
  <2>1. CASE Unreadable(locked, ip, off, n)
    BY <1>4, <1>5, <2>1, ReadiRefuses, LeavesKeeps
  <2>2. CASE ~Unreadable(locked, ip, off, n)
    <3>1. PICK size \in 0 .. MaxSize : size = locked.icache[ip].size
      BY <1>4, CNodeFields DEF Typed
    <3>2. Leaves(locked, read.s) /\ read.r \in Nat /\ off + read.r <= size
      BY <1>4, <1>5, <2>2, <3>1, ReadiReads
    <3>3. QED  BY <3>1, <3>2, Sizes, LeavesKeeps
  <2>3. QED  BY <2>1, <2>2
<1>7. Safe(locked, read.s)
  BY <1>4, <1>5, ReadiSafe
<1>8. Safe(s, iunlock(Moved(read, f), ip))
  BY <1>1, <1>2, <1>3, <1>6, <1>7, UnderLockSafe
<1>9. CASE s.ftable[f].type # "inode"
  BY <1>9, SafeAll DEF fileread
<1>10. CASE s.ftable[f].type = "inode"
  <2>1. fileread(s, f, n) = iunlock(Moved(read, f), ip)
    BY <1>1, <1>2, <1>3, <1>5, <1>10 DEF fileread
  <2>2. QED  BY <1>8, <2>1
<1>11. QED  BY <1>9, <1>10

LEMMA ChunkSafe ==
  ASSUME NEW s, LInv(s), NEW f \in Files, NEW ip \in Slots, s.icache[ip].ref > 0,
         NEW n1 \in Nat, NEW cell \in Stored, cell.name \notin Name,
         NEW write, write = writei(ilock(s, ip), ip, s.ftable[f].off, n1, cell)
  PROVE  Safe(s, iunlock(Moved(write, f), ip))
<1>1. PICK off \in Nat : off = s.ftable[f].off
  BY FileFields DEF Typed, LInv
<1>2. PICK locked : locked = ilock(s, ip)
  OBVIOUS
<1>3. LInv(locked) /\ Typed(locked) /\ Valid(locked.icache[ip]) /\ locked.icache[ip].ref > 0
  BY <1>2, IlockSafe DEF Safe, LInv
<1>4. /\ Keeps(locked, write.s) /\ write.r \in {-1, n1}
      /\ write.r = n1 => off + n1 <= MaxSize
  BY <1>1, <1>2, <1>3, WriteiKeeps
<1>5. write.r \in Int /\ (write.r > 0 => s.ftable[f].off + write.r <= MaxSize)
  BY <1>1, <1>4
<1>6. Safe(locked, write.s)
  BY <1>1, <1>2, <1>3, WriteiSafe
<1>7. QED  BY <1>2, <1>4, <1>5, <1>6, UnderLockSafe

LEMMA FilewriteSafe ==
  ASSUME NEW s, LInv(s), NEW f \in Files, s.ftable[f].ip \in Slots,
         s.icache[s.ftable[f].ip].ref > 0, NEW n \in Nat, NEW cell \in Stored, cell.name \notin Name
  PROVE  Safe(s, filewrite(s, f, n, cell))
<1>1. PICK ip \in Slots : ip = s.ftable[f].ip
  OBVIOUS
<1>2. PICK g : Chunks(g, s, ip, f, n, cell)
  BY <1>1, ChunksIs
<1>3. MaxChunk \in Nat
  BY MaxChunkIs
<1> DEFINE T == {k \in 0 .. n : Safe(s, g[k].s) /\ g[k].s.icache[ip].ref > 0 /\ g[k].i \in 0 .. n}
<1>4. 0 \in T
  BY <1>1, <1>2, SafeAll DEF Chunks, ChunkStart
<1>5. ASSUME NEW k \in 0 .. n - 1, k \in T PROVE k + 1 \in T
  <2>1. PICK x : x = g[k]
    OBVIOUS
  <2>2. Safe(s, x.s) /\ LInv(x.s) /\ Typed(x.s) /\ x.s.icache[ip].ref > 0 /\ x.i \in 0 .. n
    BY <1>5, <2>1 DEF Safe, LInv
  <2>3. PICK n1 \in 0 .. n - x.i : n1 = IF n - x.i > MaxChunk THEN MaxChunk ELSE n - x.i
    BY <1>3, <2>2
  <2>4. PICK write : write = writei(ilock(x.s, ip), ip, x.s.ftable[f].off, n1, cell)
    OBVIOUS
  <2>5. PICK t : t = iunlock(Moved(write, f), ip)
    OBVIOUS
  <2>6. Safe(x.s, t)
    BY <2>2, <2>3, <2>4, <2>5, ChunkSafe
  <2>7. Holds(x.s, t, {})
    BY <2>2, <2>3, <2>4, <2>5, ChunkHolds
  <2>8. Safe(s, t) /\ t.icache[ip].ref > 0
    BY <2>2, <2>6, <2>7, SafeMore DEF Holds
  <2>9. g[k + 1] = IF x.i = n \/ x.failed THEN x
                   ELSE [s |-> t, i |-> x.i + n1, failed |-> write.r # n1]
    BY <1>2, <2>1, <2>3, <2>4, <2>5 DEF Chunks, ChunkWritten
  <2>10. x.i + n1 \in 0 .. n
    BY <2>2, <2>3
  <2>11. Safe(s, g[k + 1].s) /\ g[k + 1].s.icache[ip].ref > 0 /\ g[k + 1].i \in 0 .. n
    <3>1. CASE x.i = n \/ x.failed
      <4>1. g[k + 1] = x
        BY <2>9, <3>1
      <4>2. QED  BY <2>2, <4>1
    <3>2. CASE ~(x.i = n \/ x.failed)
      <4>1. g[k + 1].s = t /\ g[k + 1].i = x.i + n1
        BY <2>9, <3>2
      <4>2. QED  BY <2>8, <2>10, <4>1
    <3>3. QED  BY <3>1, <3>2
  <2>12. QED  BY <2>11
<1>6. 0 .. n \subseteq T
  <2> HIDE DEF T
  <2> QED  BY <1>4, <1>5, IntervalInduction
<1>7. Safe(s, g[n].s) /\ Safe(s, s)
  BY <1>6, SafeAll
<1>8. filewrite(s, f, n, cell) \in {s, g[n].s}
  <2>1. CASE ~s.ftable[f].writable \/ s.ftable[f].type # "inode"
    BY <2>1 DEF filewrite
  <2>2. CASE ~(~s.ftable[f].writable \/ s.ftable[f].type # "inode")
    BY <1>2, <2>2 DEF Chunks
  <2>3. QED  BY <2>1, <2>2
<1>9. QED  BY <1>7, <1>8

-----------------------------------------------------------------------------
(***************************************************************************)
(* The calls again: what each frees was not used any more.                 *)
(***************************************************************************)
FreesUnused(s, t) ==
  \A i \in Inodes :
    s.dinode[i].type # "free" /\ t.dinode[i].type = "free" =>
      /\ s.dinode[i].nlink = 0 /\ ~NamedIn(s.data, i)
      /\ \A ip \in Slots : s.icache[ip].inum = i => t.icache[ip].ref = 0

FreesRight(s, t) == LInv(t) /\ FreesUnused(s, t)

LEMMA SafeFreesRight == ASSUME NEW s, NEW t, Safe(s, t) PROVE FreesRight(s, t)
  BY DEF Safe, NoneFreed, FreesRight, FreesUnused

LEMMA IputFreesRight ==
  ASSUME NEW s, LInv(s), NEW ip \in Slots, s.icache[ip].ref > 0
  PROVE  FreesRight(s, iput(s, ip))
<1>1. PICK t : t = iput(s, ip)
  OBVIOUS
<1>2. LInv(t) /\ (NoneFreed(s.dinode, t.dinode) \/ Frees(s, t, ip))
  BY <1>1, IputFrees
<1>3. CASE NoneFreed(s.dinode, t.dinode)
  BY <1>1, <1>2, <1>3, SafeFreesRight DEF Safe
<1>4. CASE Frees(s, t, ip)
  <2>1. Typed(s) /\ OneSlot(s) /\ LinksOK(s.dinode, s.data) /\ SlotsOK(s)
    BY DEF LInv
  <2>2. PICK i \in Inodes : i = s.icache[ip].inum
    BY <2>1 DEF Typed
  <2>3. s.dinode[i].nlink = 0 /\ ~NamedIn(s.data, i)
    BY <1>4, <2>1, <2>2 DEF Frees, SlotsOK, Matches, LinksOK
  <2>4. ASSUME NEW other \in Slots, s.icache[other].inum = i PROVE t.icache[other].ref = 0
    <3>1. CASE other = ip
      BY <1>4, <3>1 DEF Frees, Dropped
    <3>2. CASE other # ip
      <4>1. t.icache[other].ref = s.icache[other].ref
        BY <1>4, <3>2 DEF Frees, Dropped, SameUse
      <4>2. ~(s.icache[other].ref > 0)
        BY <2>1, <2>2, <2>4, <3>2 DEF OneSlot
      <4>3. s.icache[other].ref \in Nat
        BY <2>1, CNodeFields DEF Typed
      <4>4. QED  BY <4>1, <4>2, <4>3
    <3>3. QED  BY <3>1, <3>2
  <2>5. FreesUnused(s, t)
    BY <1>4, <2>2, <2>3, <2>4 DEF FreesUnused, Frees
  <2>6. QED  BY <1>1, <1>2, <2>5 DEF FreesRight
<1>5. QED  BY <1>2, <1>3, <1>4

\* What comes before a call and touches neither disk nor inode numbers.
LEMMA FreesRightAfter ==
  ASSUME NEW s, NEW u, NEW t, u.dinode = s.dinode, u.data = s.data,
         \A ip \in Slots : u.icache[ip].inum = s.icache[ip].inum, FreesRight(u, t)
  PROVE  FreesRight(s, t)
  BY DEF FreesRight, FreesUnused

LEMMA HeldIs ==
  ASSUME IInv(fs, ptr), LInv(fs), NEW ip \in Slots, ptr[ip] > 0
  PROVE  /\ fs.icache[ip].ref > 0 /\ fs.icache[ip].inum \in Inodes
         /\ Locked(ip) => Valid(fs.icache[ip])
  BY InUse1 DEF Locked, LInv, SlotsOK, Busy

LEMMA IgetFrees ==
  ASSUME LInv(fs), NEW i \in Inodes, Iget(i) PROVE FreesRight(fs, fs')
<1>1. NamedIn(fs.data, i)
  BY DEF Iget, Entry, NamedIn, InBlock
<1>2. fs.dinode[i].type # "free"
  BY <1>1 DEF LInv, LinksOK
<1>3. fs' = iget(fs, i).s
  BY DEF Iget, Gets
<1>4. Safe(fs, fs')
  BY <1>2, <1>3, IgetSafe
<1>5. QED  BY <1>4, SafeFreesRight

LEMMA IallocFrees ==
  ASSUME LInv(fs), NEW type \in Types \ {"free"}, Ialloc(type) PROVE FreesRight(fs, fs')
  BY IallocSafe, SafeFreesRight DEF Ialloc, Gets

LEMMA IdupFrees ==
  ASSUME IInv(fs, ptr), LInv(fs), NEW ip \in Slots, Idup(ip) PROVE FreesRight(fs, fs')
<1>1. fs.icache[ip].ref > 0
  BY HeldIs DEF Idup
<1>2. PICK t : t = idup(fs, ip)
  OBVIOUS
<1>3. fs' = t
  BY <1>2 DEF Idup, Gets, Returns
<1>4. QED  BY <1>1, <1>2, <1>3, IdupSafe, SafeFreesRight

LEMMA IlockFrees ==
  ASSUME IInv(fs, ptr), LInv(fs), NEW ip \in Slots, Ilock(ip) PROVE FreesRight(fs, fs')
  BY HeldIs, IlockSafe, SafeFreesRight DEF Ilock

LEMMA IunlockFrees ==
  ASSUME LInv(fs), NEW ip \in Slots, Iunlock(ip) PROVE FreesRight(fs, fs')
  BY IunlockSafe, SafeFreesRight DEF Iunlock

LEMMA IputCallFrees ==
  ASSUME IInv(fs, ptr), LInv(fs), NEW ip \in Slots, Iput(ip) PROVE FreesRight(fs, fs')
<1>1. ptr[ip] > 0
  BY DEF Iput, IInv
<1>2. QED  BY <1>1, HeldIs, IputFreesRight DEF Iput

LEMMA IunlockputFrees ==
  ASSUME IInv(fs, ptr), LInv(fs), NEW ip \in Slots, Iunlockput(ip) PROVE FreesRight(fs, fs')
<1>1. fs.icache[ip].ref > 0 /\ Typed(fs)
  BY HeldIs DEF Iunlockput, IInv
<1>2. PICK u : u = iunlock(fs, ip)
  OBVIOUS
<1>3. LInv(u)
  BY <1>2, IunlockSafe DEF Safe
<1>4. Flagged(fs, u, ip)
  BY <1>1, <1>2, IunlockFlags
<1>5. u.dinode = fs.dinode /\ u.data = fs.data
  BY <1>1, <1>2 DEF iunlock, Typed
<1>6. FreesRight(u, iput(u, ip))
  BY <1>1, <1>3, <1>4, IputFreesRight DEF Flagged
<1>7. fs' = iput(u, ip)
  BY <1>2 DEF Iunlockput, iunlockput
<1>8. \A other \in Slots : u.icache[other].inum = fs.icache[other].inum
  BY <1>4 DEF Flagged, SameUse
<1>9. QED  BY <1>5, <1>6, <1>7, <1>8, FreesRightAfter

LEMMA SetLinksFrees ==
  ASSUME IInv(fs, ptr), LInv(fs), NEW ip \in Slots, NEW n \in {0, 1}, SetLinks(ip, n) PROVE FreesRight(fs, fs')
<1>1. fs.icache[ip].ref > 0 /\ Valid(fs.icache[ip])
  BY HeldIs DEF SetLinks
<1>2. n > 0 \/ (fs.icache[ip].inum # ROOTINO /\ ~NamedIn(fs.data, fs.icache[ip].inum))
  BY DEF SetLinks, Entry, NamedIn, InBlock
<1>3. Safe(fs, fs')
  BY <1>1, <1>2, SetLinksSafe DEF SetLinks
<1>4. QED  BY <1>3, SafeFreesRight

LEMMA ReadiFrees ==
  ASSUME LInv(fs), NEW ip \in Slots, NEW off \in Nat, NEW n \in Nat, Readi(ip, off, n)
  PROVE  FreesRight(fs, fs')
  BY ReadiSafe, SafeFreesRight DEF Readi

\* What is written to a file names nothing.
LEMMA DataUnnamed == ASSUME NEW i PROVE Data(i).name \notin Name
  BY DiskAssumption DEF Data

LEMMA WriteiFrees ==
  ASSUME IInv(fs, ptr), LInv(fs), NEW ip \in Slots, NEW off \in Nat, NEW n \in Nat, Writei(ip, off, n)
  PROVE  FreesRight(fs, fs')
<1>1. fs.icache[ip].ref > 0 /\ Valid(fs.icache[ip]) /\ fs.icache[ip].inum \in Inodes
  BY HeldIs DEF Writei
<1>2. PICK cell \in Stored : cell = Data(fs.icache[ip].inum)
  BY <1>1, DataIs
<1>3. cell.name \notin Name
  BY <1>2, DataUnnamed
<1>4. Safe(fs, writei(fs, ip, off, n, cell).s)
  BY <1>1, <1>3, WriteiSafe
<1>5. QED  BY <1>2, <1>4, SafeFreesRight DEF Writei

LEMMA DirlookupFrees ==
  ASSUME LInv(fs), NEW dp \in Slots, NEW name \in Name, Dirlookup(dp, name) PROVE FreesRight(fs, fs')
  BY DirlookupSafe, SafeFreesRight DEF Dirlookup, Gets

LEMMA DirlinkFrees ==
  ASSUME IInv(fs, ptr), LInv(fs), NEW dp \in Slots, NEW name \in Name, NEW ip \in Slots, Dirlink(dp, name, ip)
  PROVE  FreesRight(fs, fs')
<1>1. fs.icache[dp].ref > 0 /\ Valid(fs.icache[dp]) /\ fs.icache[dp].type = "dir"
  BY HeldIs DEF Dirlink
<1>2. PICK i \in Inodes : i = fs.icache[ip].inum
  BY HeldIs DEF Dirlink
<1>3. fs.dinode[i].nlink > 0 /\ fs' = dirlink(fs, dp, name, i).s
  BY <1>2 DEF Dirlink
<1>4. Safe(fs, fs')
  BY <1>1, <1>3, DirlinkSafe
<1>5. QED  BY <1>4, SafeFreesRight

LEMMA LookupFrees == ASSUME LInv(fs), Lookup PROVE FreesRight(fs, fs')
<1>1. PICK path \in Lookups : Namei(path) \/ Nameiparent(path)
  BY DEF Lookup
<1>2. path \in Seq(Name)
  BY FileSystemAssumption
<1>3. iget(fs, ROOTINO).r # NULL
  BY <1>1 DEF Namei, Nameiparent, CanWalk
<1>4. PICK parent \in BOOLEAN : fs' = namex(fs, path, parent).s
  BY <1>1 DEF Namei, namei, Nameiparent, nameiparent, Gets
<1>5. Safe(fs, fs')
  BY <1>2, <1>3, <1>4, NamexSafe
<1>6. QED  BY <1>5, SafeFreesRight

LEMMA OpenFrees ==
  ASSUME LInv(fs), NEW ip \in Slots, NEW writable \in BOOLEAN, Open(ip, writable) PROVE FreesRight(fs, fs')
<1>1. PICK call : call = filealloc(fs, ip, writable)
  OBVIOUS
<1>2. call.r # NULL /\ fs' = call.s
  BY <1>1 DEF Open
<1>3. PICK e : Filed(fs, fs', call.r, e)
  BY <1>1, <1>2, FileallocFiles DEF LInv
<1>4. QED  BY <1>3, FiledSafe, SafeFreesRight

LEMMA FiledupFrees == ASSUME LInv(fs), NEW f \in Files, Filedup(f) PROVE FreesRight(fs, fs')
<1>1. fs.ftable[f].ref > 0 /\ fs' = filedup(fs, f)
  BY DEF Filedup
<1>2. PICK e : Filed(fs, fs', f, e)
  BY <1>1, FiledupFiles DEF LInv
<1>3. QED  BY <1>2, FiledSafe, SafeFreesRight

\* An open file's inode is in use.
LEMMA FileHeld ==
  ASSUME IInv(fs, ptr), NEW f \in Files, fs.ftable[f].ref > 0
  PROVE  /\ fs.ftable[f].type = "inode" /\ fs.ftable[f].ip \in Slots
         /\ fs.icache[fs.ftable[f].ip].ref > 0 /\ fs.icache[fs.ftable[f].ip].inum \in Inodes
<1>1. fs.ftable[f].type = "inode" /\ fs.ftable[f].ip \in Slots
  BY DEF IInv, OpenOK
<1>2. f \in FilesAt(fs, fs.ftable[f].ip)
  BY DEF FilesAt
<1>3. QED  BY <1>1, <1>2, InUse1

LEMMA FilecloseFrees ==
  ASSUME IInv(fs, ptr), LInv(fs), NEW f \in Files, Fileclose(f) PROVE FreesRight(fs, fs')
<1>1. fs.ftable[f].ref > 0 /\ fs' = fileclose(fs, f)
  BY DEF Fileclose
<1>2. PICK ip \in Slots : ip = fs.ftable[f].ip
  BY <1>1, FileHeld
<1>3. fs.ftable[f].type = "inode" /\ fs.icache[ip].ref > 0
  BY <1>1, <1>2, FileHeld
<1>4. CASE \E e \in OFile : Filed(fs, fs', f, e)
  BY <1>4, FiledSafe, SafeFreesRight
<1>5. CASE \E closed : Filed(fs, closed, f, NoFileOpen) /\ fs' = iput(closed, ip)
  <2>1. PICK closed : Filed(fs, closed, f, NoFileOpen) /\ fs' = iput(closed, ip)
    BY <1>5
  <2>2. LInv(closed)
    BY <2>1, FiledSafe DEF Safe
  <2>3. FreesRight(closed, fs')
    BY <1>3, <2>1, <2>2, IputFreesRight DEF Filed
  <2>4. QED  BY <2>1, <2>3, FreesRightAfter DEF Filed
<1>6. QED  BY <1>1, <1>2, <1>3, <1>4, <1>5, FilecloseFiles DEF LInv

LEMMA UseFileFrees ==
  ASSUME IInv(fs, ptr), LInv(fs), client.counts \subseteq Nat, NEW f \in Files, UseFile(f)
  PROVE  FreesRight(fs, fs')
<1>1. /\ fs.ftable[f].ip \in Slots
      /\ fs.icache[fs.ftable[f].ip].ref > 0 /\ fs.icache[fs.ftable[f].ip].inum \in Inodes
  BY FileHeld DEF UseFile
<1>2. PICK cell \in Stored : cell = Data(fs.icache[fs.ftable[f].ip].inum)
  BY <1>1, DataIs
<1>3. cell.name \notin Name
  BY <1>2, DataUnnamed
<1>4. CASE fs' = filestat(fs, f)
  BY <1>1, <1>4, FilestatSafe, SafeFreesRight
<1>5. CASE \E n \in client.counts : fs' = fileread(fs, f, n)
  BY <1>1, <1>5, FilereadSafe, SafeFreesRight
<1>6. CASE \E n \in client.counts : fs' = filewrite(fs, f, n, cell)
  BY <1>1, <1>3, <1>6, FilewriteSafe, SafeFreesRight
<1>7. QED  BY <1>2, <1>4, <1>5, <1>6 DEF UseFile

LEMMA NextFrees == ASSUME IInvariant, LInv(fs), Next PROVE FreesRight(fs, fs')
<1>1. IInv(fs, ptr) /\ client \in Clients
  BY DEF IInvariant
<1>2. client.counts \subseteq Nat /\ client.writes \subseteq BOOLEAN /\ client.types \subseteq Types \ {"free"}
  BY <1>1, ClientIs, FileSystemAssumption
<1>3. Links \subseteq Name
  BY FileSystemAssumption
<1>4. CASE References
  <2>1. ASSUME \E i \in Inodes : Iget(i) PROVE FreesRight(fs, fs')
    BY <2>1, IgetFrees
  <2>2. ASSUME \E ip \in Slots : Idup(ip) \/ Ilock(ip) \/ Iunlock(ip) PROVE FreesRight(fs, fs')
    BY <1>1, <2>2, IdupFrees, IlockFrees, IunlockFrees
  <2>3. ASSUME \E ip \in Slots : Iput(ip) \/ Iunlockput(ip) PROVE FreesRight(fs, fs')
    BY <1>1, <2>3, IputCallFrees, IunlockputFrees
  <2>4. QED  BY <1>4, <2>1, <2>2, <2>3 DEF References
<1>5. CASE Allocation
  BY <1>2, <1>5, IallocFrees DEF Allocation
<1>6. CASE Linking
  BY <1>1, <1>6, SetLinksFrees DEF Linking
<1>7. CASE Contents
  <2>1. PICK ip \in Slots, n \in client.counts :
          \E off \in {0, fs.icache[ip].size, fs.icache[ip].size + 1} : Readi(ip, off, n) \/ Writei(ip, off, n)
    BY <1>7 DEF Contents
  <2>2. fs.icache[ip].size \in Nat /\ n \in Nat
    BY <1>1, <1>2, CNodeFields, Sizes DEF IInv, Typed
  <2>3. PICK off \in Nat : Readi(ip, off, n) \/ Writei(ip, off, n)
    BY <2>1, <2>2
  <2>4. QED  BY <1>1, <2>2, <2>3, ReadiFrees, WriteiFrees
<1>8. CASE Directory
  BY <1>1, <1>3, <1>8, DirlookupFrees, DirlinkFrees DEF Directory
<1>9. CASE Lookup
  BY <1>9, LookupFrees
<1>10. CASE OpenFiles
  <2>1. ASSUME \E ip \in Slots, writable \in client.writes : Open(ip, writable) PROVE FreesRight(fs, fs')
    BY <1>2, <2>1, OpenFrees
  <2>2. ASSUME \E f \in Files : Filedup(f) \/ Fileclose(f) \/ UseFile(f) PROVE FreesRight(fs, fs')
    BY <1>1, <1>2, <2>2, FiledupFrees, FilecloseFrees, UseFileFrees
  <2>3. QED  BY <1>10, <2>1, <2>2 DEF OpenFiles
<1>11. QED  BY <1>4, <1>5, <1>6, <1>7, <1>8, <1>9, <1>10 DEF Next

-----------------------------------------------------------------------------
(***************************************************************************)
(* The disk that mkfs made: what it has allocated is linked, and no entry  *)
(* names what it has not.                                                  *)
(***************************************************************************)
ImageLinks(m) ==
  \A i \in Inodes :
    /\ i < m.freeinode => m.dinode[i].type # "free" /\ m.dinode[i].nlink > 0
    /\ ~(i < m.freeinode) => m.dinode[i].nlink = 0
    /\ NamedIn(m.data, i) => i < m.freeinode

AlikeImage(m, n, X) ==
  SameLinks(m.dinode, n.dinode) /\ NoneNamed(m.data, n.data, X) /\ n.freeinode = m.freeinode

LEMMA AlikeImageAll == ASSUME NEW m, NEW X PROVE AlikeImage(m, m, X)
  BY DEF AlikeImage, SameLinks, NoneNamed

LEMMA AlikeImageMore ==
  ASSUME NEW m, NEW n, NEW u, NEW X, AlikeImage(m, n, X), AlikeImage(n, u, X)
  PROVE  AlikeImage(m, u, X)
<1>1. SameLinks(m.dinode, u.dinode)
  BY DEF AlikeImage, SameLinks
<1>2. NoneNamed(m.data, u.data, X) /\ u.freeinode = m.freeinode
  BY DEF AlikeImage, NoneNamed
<1>3. QED  BY <1>1, <1>2 DEF AlikeImage

LEMMA AlikeImageLinks ==
  ASSUME NEW m, ImageLinks(m), NEW n, NEW X, AlikeImage(m, n, X), \A i \in Inodes \cap X : i < m.freeinode
  PROVE  ImageLinks(n)
  BY DEF ImageLinks, AlikeImage, SameLinks, NoneNamed

LEMMA AddressAddedAlike ==
  ASSUME NEW m, ImageOK(m), NEW i \in Inodes, NEW n, NEW X
  PROVE  AlikeImage(m, AddressAdded(m, i, n), X)
<1>1. CASE rinode(m, i).addrs[n] # 0
  BY <1>1, AlikeImageAll DEF AddressAdded
<1>2. CASE rinode(m, i).addrs[n] = 0
  <2>1. PICK u : u = AddressAdded(m, i, n)
    OBVIOUS
  <2>2. PICK d \in NodeOf(Numbers(m)) : d = m.dinode[i]
    BY DEF ImageOK
  <2> DEFINE e == [d EXCEPT !.addrs[n] = m.freeblock]
  <2>3. u.dinode = [m.dinode EXCEPT ![i] = e] /\ u.data = m.data /\ u.freeinode = m.freeinode
    BY <1>2, <2>1, <2>2 DEF AddressAdded, ImageOK
  <2>4. e.type = d.type /\ e.nlink = d.nlink
    BY DEF NodeOf
  <2> HIDE DEF e
  <2>5. SameLinks(m.dinode, u.dinode)
    BY <2>2, <2>3, <2>4 DEF SameLinks, ImageOK
  <2>6. QED  BY <2>1, <2>3, <2>5 DEF AlikeImage, NoneNamed
<1>3. QED  BY <1>1, <1>2

\* Cells change to the one that is given.
CellsChange(data, new, cell) ==
  \A b \in Blocks, o \in InBlock : new[b][o] = cell \/ new[b][o] = data[b][o]

LEMMA CellAlikeImage ==
  ASSUME NEW m, NEW cell, NEW X, cell.name \in Name => cell.num \in X,
         NEW n, n.dinode = m.dinode, n.freeinode = m.freeinode,
         CellsChange(m.data, n.data, cell)
  PROVE  AlikeImage(m, n, X)
<1>1. NoneNamed(m.data, n.data, X)
  <2> SUFFICES ASSUME NEW i \in Inodes, NEW b \in Blocks, NEW o \in InBlock,
                      n.data[b][o].num = i, n.data[b][o].name \in Name
               PROVE  NamedIn(m.data, i) \/ i \in X
    BY DEF NoneNamed, NamedIn
  <2>1. n.data[b][o] = cell \/ n.data[b][o] = m.data[b][o]
    BY DEF CellsChange
  <2>2. QED  BY <2>1 DEF NamedIn
<1>2. QED  BY <1>1 DEF AlikeImage, SameLinks

LEMMA EntryAddedAlike ==
  ASSUME NEW m, ImageOK(m), NEW b, NEW n, NEW X PROVE AlikeImage(m, EntryAdded(m, b, n), X)
<1>1. CASE m.data[b][n].num # 0
  BY <1>1, AlikeImageAll DEF EntryAdded
<1>2. CASE m.data[b][n].num = 0
  <2>1. PICK u : u = EntryAdded(m, b, n)
    OBVIOUS
  <2>2. PICK cell : cell = Address(m.freeblock)
    OBVIOUS
  <2>3. cell.name \notin Name
    BY <2>2, DiskAssumption DEF Address
  <2>4. u.dinode = m.dinode /\ u.freeinode = m.freeinode /\ u.data = [m.data EXCEPT ![b][n] = cell]
    BY <1>2, <2>1, <2>2 DEF EntryAdded, ImageOK
  <2>5. CellsChange(m.data, u.data, cell)
    BY <2>4 DEF ImageOK, CellsChange
  <2>6. u.dinode = m.dinode /\ u.freeinode = m.freeinode
    BY <2>4
  <2>7. AlikeImage(m, u, X)
    BY <2>3, <2>5, <2>6, CellAlikeImage
  <2>8. QED  BY <2>1, <2>7
<1>3. QED  BY <1>1, <1>2

LEMMA BlockAppendedAlike ==
  ASSUME NEW m, ImageOK(m), NEW i \in Inodes, NEW X PROVE AlikeImage(m, BlockAppended(m, i), X)
<1> DEFINE fbn == rinode(m, i).size \div BSIZE
<1>1. BlockAppended(m, i)
        = IF fbn < NDIRECT THEN AddressAdded(m, i, fbn)
          ELSE EntryAdded(AddressAdded(m, i, NDIRECT),
                          rinode(AddressAdded(m, i, NDIRECT), i).addrs[NDIRECT], fbn - NDIRECT)
  BY Zenon DEF BlockAppended, AddressAdded, EntryAdded
<1> HIDE DEF fbn
<1>2. PICK direct : direct = AddressAdded(m, i, fbn)
  OBVIOUS
<1>3. PICK table : table = AddressAdded(m, i, NDIRECT)
  OBVIOUS
<1>4. PICK entry : entry = EntryAdded(table, rinode(table, i).addrs[NDIRECT], fbn - NDIRECT)
  OBVIOUS
<1>5. AlikeImage(m, direct, X) /\ AlikeImage(m, table, X) /\ ImageOK(table)
  BY <1>2, <1>3, AddressAddedOK, AddressAddedAlike
<1>6. AlikeImage(m, entry, X)
  BY <1>4, <1>5, EntryAddedAlike, AlikeImageMore
<1>7. BlockAppended(m, i) \in {direct, entry}
  BY <1>1, <1>2, <1>3, <1>4
<1>8. QED  BY <1>5, <1>6, <1>7

LEMMA CellAppendedAlike ==
  ASSUME NEW m, ImageOK(m), NEW i \in Inodes, NEW cell, NEW X, cell.name \in Name => cell.num \in X
  PROVE  AlikeImage(m, CellAppended(m, i, cell), X)
<1>1. PICK off : off = rinode(m, i).size
  OBVIOUS
<1>2. PICK t : t = BlockAppended(m, i)
  OBVIOUS
<1>3. ImageOK(t) /\ AlikeImage(m, t, X)
  BY <1>2, BlockAppendedOK, BlockAppendedAlike
<1>4. PICK b, o : b = BlockOf(t, i, off \div BSIZE) /\ o = off % BSIZE
  OBVIOUS
<1>5. PICK u : u = [t EXCEPT !.data[b][o] = cell]
  OBVIOUS
<1>6. u.dinode = t.dinode /\ u.freeinode = t.freeinode /\ u.data = [t.data EXCEPT ![b][o] = cell]
  BY <1>3, <1>5 DEF ImageOK
<1>7. AlikeImage(t, u, X)
  <2>1. CellsChange(t.data, u.data, cell)
    BY <1>3, <1>6 DEF ImageOK, CellsChange
  <2>2. u.dinode = t.dinode /\ u.freeinode = t.freeinode
    BY <1>6
  <2>3. QED  BY <2>1, <2>2, CellAlikeImage
<1>8. PICK d \in NodeOf(Numbers(t)) : d = u.dinode[i]
  BY <1>3, <1>6 DEF ImageOK
<1> DEFINE e == [d EXCEPT !.size = off + 1]
<1>9. PICK v : v = CellAppended(m, i, cell)
  OBVIOUS
<1>10. v = [u EXCEPT !.dinode[i].size = off + 1]
  BY <1>1, <1>2, <1>4, <1>5, <1>9 DEF CellAppended, CellPut
<1>11. v.dinode = [u.dinode EXCEPT ![i] = e] /\ v.data = u.data /\ v.freeinode = u.freeinode
  BY <1>3, <1>5, <1>6, <1>8, <1>10 DEF ImageOK
<1>12. e.type = d.type /\ e.nlink = d.nlink
  BY DEF NodeOf
<1> HIDE DEF e
<1>13. SameLinks(u.dinode, v.dinode)
  BY <1>3, <1>6, <1>8, <1>11, <1>12 DEF SameLinks, ImageOK
<1>14. AlikeImage(u, v, X)
  BY <1>11, <1>13 DEF AlikeImage, NoneNamed
<1>15. QED  BY <1>3, <1>7, <1>9, <1>14, AlikeImageMore

LEMMA IappendAlike ==
  ASSUME NEW m, ImageOK(m), NEW i \in Inodes, NEW cells \in Seq(Stored), NEW X,
         \A k \in 1 .. Len(cells) : cells[k].name \in Name => cells[k].num \in X
  PROVE  AlikeImage(m, iappend(m, i, cells), X)
<1>1. PICK n \in Nat : n = Len(cells)
  OBVIOUS
<1>2. PICK f : Appends(f, m, i, cells, n)
  BY <1>1, AppendsIs
<1> DEFINE T == {k \in 0 .. n : ImageOK(f[k]) /\ AlikeImage(m, f[k], X)}
<1>3. 0 \in T
  BY <1>2, AlikeImageAll DEF Appends
<1>4. ASSUME NEW k \in 0 .. n - 1, k \in T PROVE k + 1 \in T
  <2>1. PICK cell \in Stored : cell = cells[k + 1] /\ (cell.name \in Name => cell.num \in X)
    BY <1>1
  <2>2. ImageOK(f[k]) /\ AlikeImage(m, f[k], X) /\ f[k + 1] = CellAppended(f[k], i, cell)
    BY <1>2, <1>4, <2>1 DEF Appends
  <2>3. ImageOK(f[k + 1])
    BY <2>1, <2>2, CellAppendedOK
  <2>4. AlikeImage(f[k], f[k + 1], X)
    BY <2>1, <2>2, CellAppendedAlike
  <2>5. QED  BY <2>2, <2>3, <2>4, AlikeImageMore
<1>5. 0 .. n \subseteq T
  <2> HIDE DEF T
  <2> QED  BY <1>3, <1>4, IntervalInduction
<1>6. QED  BY <1>2, <1>5 DEF Appends

LEMMA MkfsIallocLinks ==
  ASSUME NEW m, ImageOK(m), ImageLinks(m), m.freeinode \in Inodes, NEW type \in Types \ {"free"}
  PROVE  ImageLinks(mkfs_ialloc(m, type))
<1>1. PICK d : d = [FreeDinode EXCEPT !.type = type, !.nlink = 1]
  OBVIOUS
<1>2. d.type = type /\ d.nlink = 1
  BY <1>1 DEF FreeDinode
<1>3. PICK u : u = mkfs_ialloc(m, type)
  OBVIOUS
<1>4. /\ u.dinode = [m.dinode EXCEPT ![m.freeinode] = d] /\ u.data = m.data
      /\ u.freeinode = m.freeinode + 1
  BY <1>1, <1>3 DEF mkfs_ialloc, winode, ImageOK
<1>5. ASSUME NEW i \in Inodes
      PROVE  /\ i < u.freeinode => u.dinode[i].type # "free" /\ u.dinode[i].nlink > 0
             /\ ~(i < u.freeinode) => u.dinode[i].nlink = 0
             /\ NamedIn(u.data, i) => i < u.freeinode
  <2>1. i \in Nat /\ m.freeinode \in Nat
    BY Sizes DEF ImageOK
  <2>2. CASE i = m.freeinode
    BY <1>2, <1>4, <2>1, <2>2 DEF ImageOK
  <2>3. CASE i # m.freeinode
    BY <1>4, <2>1, <2>3 DEF ImageLinks
  <2>4. QED  BY <2>2, <2>3
<1>6. QED  BY <1>3, <1>5 DEF ImageLinks

LEMMA FileAddedLinks ==
  ASSUME NEW m, ImageOK(m), ImageLinks(m), m.freeinode \in Inodes, NEW file \in [name : Name, cells : Nat]
  PROVE  ImageLinks(FileAdded(m, file))
<1>1. PICK i \in Inodes : i = m.freeinode
  OBVIOUS
<1>2. PICK t : t = mkfs_ialloc(m, "file")
  OBVIOUS
<1>3. ImageOK(t) /\ t.freeinode = i + 1 /\ ImageLinks(t)
  BY <1>1, <1>2, MkfsIallocOK, MkfsIallocLinks DEF Types
<1>4. PICK de : de = Dirent(file.name, i)
  OBVIOUS
<1>5. PICK entry : entry = <<de>>
  OBVIOUS
<1>6. entry \in Seq(Stored) /\ \A k \in 1 .. Len(entry) : entry[k].num \in {i}
  <2>1. de \in Stored /\ de.num = i
    BY <1>4, DiskAssumption, Sizes DEF Dirent, Stored
  <2>2. Len(entry) = 1 /\ entry[1] = de
    BY <1>5
  <2>3. QED  BY <1>5, <2>1, <2>2
<1>7. PICK u : u = iappend(t, ROOTINO, entry)
  OBVIOUS
<1>8. ImageOK(u) /\ u.freeinode = t.freeinode
  BY <1>3, <1>6, <1>7, IappendOK, Sizes
<1>9. AlikeImage(t, u, {i})
  BY <1>3, <1>6, <1>7, IappendAlike, Sizes
<1>10. ImageLinks(u)
  BY <1>3, <1>9, AlikeImageLinks, Sizes
<1>11. PICK cells : cells = [k \in 1 .. file.cells |-> Data(i)]
  OBVIOUS
<1>12. cells \in Seq(Stored) /\ Len(cells) = file.cells
  <2>1. Data(i) \in Stored
    BY DataIs
  <2>2. QED  BY <1>11, <2>1
<1>13. \A k \in 1 .. Len(cells) : cells[k].name \notin Name
  BY <1>11, <1>12, DataUnnamed
<1>14. AlikeImage(u, iappend(u, i, cells), {})
  BY <1>8, <1>12, <1>13, IappendAlike
<1>15. ImageLinks(iappend(u, i, cells))
  BY <1>10, <1>14, AlikeImageLinks
<1>16. FileAdded(m, file) = iappend(u, i, cells)
  BY <1>1, <1>2, <1>4, <1>5, <1>7, <1>11 DEF FileAdded
<1>17. QED  BY <1>15, <1>16

LEMMA RootImageLinks == ImageLinks(RootImage)
<1>1. PICK m : m = EmptyImage
  OBVIOUS
<1>2. ImageOK(m) /\ m.freeinode = 1
  BY <1>1, EmptyImageOK
<1>3. ImageLinks(m)
  <2>1. m.dinode = [i \in Inodes |-> FreeDinode] /\ m.data = [b \in Blocks |-> ZeroBlock]
    BY <1>1 DEF EmptyImage
  <2>2. \A i \in Inodes : ~NamedIn(m.data, i) /\ m.dinode[i].nlink = 0 /\ ~(i < 1)
    BY <2>1, ZeroBlockUnnamed DEF NamedIn, FreeDinode, Inodes
  <2>3. QED  BY <1>2, <2>2 DEF ImageLinks
<1>4. PICK t : t = mkfs_ialloc(m, "dir")
  OBVIOUS
<1>5. ImageOK(t) /\ t.freeinode = 2 /\ ImageLinks(t)
  <2>1. m.freeinode \in Inodes /\ "dir" \in Types \ {"free"}
    BY <1>2, Sizes DEF Types, ROOTINO
  <2>2. ImageOK(t) /\ t.freeinode = m.freeinode + 1
    BY <1>2, <1>4, <2>1, MkfsIallocOK
  <2>3. ImageLinks(t)
    BY <1>2, <1>3, <1>4, <2>1, MkfsIallocLinks
  <2>4. QED  BY <1>2, <2>2, <2>3
<1>6. PICK dot, up : dot = Dirent(".", ROOTINO) /\ up = Dirent("..", ROOTINO)
  OBVIOUS
<1>7. dot \in Stored /\ up \in Stored /\ dot.num = ROOTINO /\ up.num = ROOTINO
  BY <1>6, DiskAssumption, Sizes DEF Dirent, Stored
<1>8. PICK cells : cells = <<dot, up>>
  OBVIOUS
<1>9. cells \in Seq(Stored) /\ \A k \in 1 .. Len(cells) : cells[k].num \in {ROOTINO}
  BY <1>7, <1>8
<1>10. AlikeImage(t, iappend(t, ROOTINO, cells), {ROOTINO})
  BY <1>5, <1>9, IappendAlike, Sizes
<1>11. ImageLinks(iappend(t, ROOTINO, cells))
  BY <1>5, <1>10, AlikeImageLinks, Sizes DEF ROOTINO
<1>12. QED  BY <1>1, <1>4, <1>6, <1>8, <1>11 DEF RootImage

LEMMA DiskOfLinks ==
  ASSUME NEW m, ImageOK(m)
  PROVE  SameLinks(m.dinode, DiskOf(m).dinode) /\ DiskOf(m).data = m.data
<1>1. PICK d \in NodeOf(Numbers(m)) : d = m.dinode[ROOTINO]
  BY Sizes DEF ImageOK
<1>2. PICK size : size = ((d.size \div BSIZE) + 1) * BSIZE
  OBVIOUS
<1> DEFINE e == [d EXCEPT !.size = size]
<1>3. PICK n : n = [m EXCEPT !.dinode[ROOTINO].size = ((@ \div BSIZE) + 1) * BSIZE]
  OBVIOUS
<1>4. n.dinode = [m.dinode EXCEPT ![ROOTINO] = e] /\ n.data = m.data /\ DOMAIN n = DOMAIN m
  BY <1>1, <1>2, <1>3 DEF ImageOK
<1>5. e.type = d.type /\ e.nlink = d.nlink
  BY DEF NodeOf
<1> HIDE DEF e
<1>6. SameLinks(m.dinode, n.dinode)
  BY <1>1, <1>4, <1>5 DEF SameLinks, ImageOK
<1>7. PICK fixed : fixed = mkfs_balloc(n)
  OBVIOUS
<1>8. fixed.data = n.data /\ fixed.dinode = n.dinode
  BY <1>4, <1>7 DEF mkfs_balloc, ImageOK
<1>9. DiskOf(m) = [used |-> fixed.used, dinode |-> fixed.dinode, data |-> fixed.data]
  BY <1>3, <1>7 DEF DiskOf
<1>10. QED  BY <1>4, <1>6, <1>8, <1>9

LEMMA MkfsLinks == ASSUME NEW files \in Images PROVE LinksOK(mkfs(files).dinode, mkfs(files).data)
<1>1. PICK n \in Nat : n = Len(files)
  BY FileSystemAssumption DEF Fits
<1>2. PICK f : Adds(f, files, n)
  BY <1>1, AddsIs
<1>3. /\ \A k \in 0 .. n : ImageOK(f[k]) /\ f[k].freeinode = k + 2
      /\ \A k \in 0 .. n - 1 : k + 2 \in Inodes /\ files[k + 1] \in [name : Name, cells : Nat]
  BY <1>1, <1>2, AddsOK
<1> DEFINE T == {k \in 0 .. n : ImageLinks(f[k])}
<1>4. 0 \in T
  BY <1>2, RootImageLinks DEF Adds
<1>5. ASSUME NEW k \in 0 .. n - 1, k \in T PROVE k + 1 \in T
  <2>1. PICK m : m = f[k]
    OBVIOUS
  <2>2. PICK file \in [name : Name, cells : Nat] : file = files[k + 1]
    BY <1>3
  <2>3. ImageOK(m) /\ ImageLinks(m) /\ m.freeinode \in Inodes
    BY <1>3, <1>5, <2>1
  <2>4. ImageLinks(FileAdded(m, file))
    BY <2>3, FileAddedLinks
  <2>5. f[k + 1] = FileAdded(m, file)
    BY <1>2, <2>1, <2>2 DEF Adds
  <2>6. QED  BY <2>4, <2>5
<1>6. 0 .. n \subseteq T
  <2> HIDE DEF T
  <2> QED  BY <1>4, <1>5, IntervalInduction
<1>7. PICK m : m = f[n]
  OBVIOUS
<1>8. ImageOK(m) /\ ImageLinks(m) /\ m.freeinode = n + 2 /\ mkfs(files) = DiskOf(m)
  BY <1>2, <1>3, <1>6, <1>7 DEF Adds
<1>9. PICK d : d = mkfs(files)
  OBVIOUS
<1>10. SameLinks(m.dinode, d.dinode) /\ d.data = m.data
  BY <1>8, <1>9, DiskOfLinks
<1>11. ROOTINO < m.freeinode
  BY <1>8 DEF ROOTINO
<1>12. LinksOK(d.dinode, d.data)
  BY <1>8, <1>10, <1>11, Sizes DEF LinksOK, ImageLinks, SameLinks
<1>13. QED  BY <1>9, <1>12

-----------------------------------------------------------------------------
LEMMA InitLinks == Init => LInv(fs)
<1> SUFFICES ASSUME Init PROVE LInv(fs)
  OBVIOUS
<1>1. Typed(fs) /\ OneSlot(fs)
  BY InitKeeps DEF IInvariant, IInv
<1>2. PICK files \in Images : /\ fs.dinode = mkfs(files).dinode /\ fs.data = mkfs(files).data
                              /\ fs.icache = [ip \in Slots |-> NoInode]
  BY DEF Init
<1>3. LinksOK(fs.dinode, fs.data)
  BY <1>2, MkfsLinks
<1>4. SlotsOK(fs)
  BY <1>2 DEF SlotsOK, NoInode, Busy
<1>5. QED  BY <1>1, <1>3, <1>4 DEF LInv

LEMMA StepFrees == IInvariant /\ LInv(fs) /\ [Next]_fsVars => FreesRight(fs, fs')
<1>1. ASSUME LInv(fs), UNCHANGED fsVars PROVE FreesRight(fs, fs')
  <2>1. fs' = fs
    BY <1>1 DEF fsVars
  <2>2. QED  BY <1>1, <2>1, SafeAll, SafeFreesRight
<1>2. QED  BY <1>1, NextFrees

\* What is linked is not free, a directory names only what is linked, and a slot
\* knows its inode's type and links: whoever changes one of them changes the others.
THEOREM LinksKept == Spec => []LInv(fs)
<1>1. IInvariant /\ LInv(fs) /\ [Next]_fsVars => LInv(fs)'
  BY StepFrees DEF FreesRight
<1>2. QED  BY <1>1, InitLinks, Invariant, PTL DEF Spec

\* An inode is freed by the last iput of it, and then no directory names it and nobody
\* has a pointer to it (fs.c:377-380): what comes after cannot find it.
THEOREM InodeFreedWhenUnused == Spec => FreedWhenUnused
<1> DEFINE Right == \A i \in Inodes :
       fs.dinode[i].type # "free" /\ fs'.dinode[i].type = "free" =>
         /\ fs.dinode[i].nlink = 0 /\ ~Entry(i)
         /\ \A ip \in Slots : fs.icache[ip].inum = i => Pointers(ip)' = 0
<1>1. ASSUME IInvariant, LInv(fs), IInvariant', [Next]_fsVars PROVE Right
  <2>1. FreesUnused(fs, fs')
    BY <1>1, StepFrees DEF FreesRight
  <2>2. ASSUME NEW i \in Inodes, fs.dinode[i].type # "free", fs'.dinode[i].type = "free"
        PROVE  /\ fs.dinode[i].nlink = 0 /\ ~Entry(i)
               /\ \A ip \in Slots : fs.icache[ip].inum = i => Pointers(ip)' = 0
    <3>1. /\ fs.dinode[i].nlink = 0 /\ ~NamedIn(fs.data, i)
          /\ \A ip \in Slots : fs.icache[ip].inum = i => fs'.icache[ip].ref = 0
      BY <2>1, <2>2 DEF FreesUnused
    <3>2. ~Entry(i)
      BY <3>1 DEF Entry, NamedIn, InBlock
    <3>3. ASSUME NEW ip \in Slots, fs.icache[ip].inum = i PROVE Pointers(ip)' = 0
      <4>1. Typed(fs') /\ ptr' \in [Slots -> Nat] /\ Refs(fs', ip) >= Due(fs', ptr', ip)
        BY <1>1 DEF IInvariant, IInv, Counted
      <4>2. Due(fs', ptr', ip) \in Nat
        BY <4>1, Numeric
      <4>3. Refs(fs', ip) = 0
        BY <3>1, <3>3 DEF Refs
      <4>4. Pointers(ip)' = Due(fs', ptr', ip)
        BY DEF Pointers, FilesOf, FilesAt, Due
      <4>5. QED  BY <4>1, <4>2, <4>3, <4>4
    <3>4. QED  BY <3>1, <3>2, <3>3
  <2>3. QED  BY <2>2
<1>2. IInvariant /\ LInv(fs) /\ IInvariant' /\ [Next]_fsVars => [Right]_fsVars
  BY <1>1
<1> HIDE DEF Right
<1>3. Spec => [][Right]_fsVars
  BY <1>2, Invariant, LinksKept, PTL DEF Spec
<1>4. QED  BY <1>3 DEF FreedWhenUnused, Right
=============================================================================
