------------------------------- MODULE FileSystem -----------------------------
(***************************************************************************)
(* The file system of A.ide: src/fs.c and src/file.c on the disk mkfs made.*)
(*                                                                         *)
(* There is one thread, so a call is one step, and each function of the    *)
(* code is an operator from the state before to the state after, s, and    *)
(* what is returned, r.  The calls come in any order from a client that    *)
(* keeps the rules of fs.c:140-156: it gets references, locks what it      *)
(* looks into or changes, unlocks it and gives the references back.        *)
(*                                                                         *)
(* A block's content is as the last call left it (BlockStore): the model   *)
(* is of a run in which no changed buffer is recycled.                     *)
(***************************************************************************)
EXTENDS Mkfs, FiniteSets

CONSTANTS
  NINODE,     (* slots of the inode cache                                  *)
  NFILE,      (* slots of the file table                                   *)
  LOGSIZE,    (* blocks of the log                                         *)
  UINT,       (* how many values a uint has                                *)
  Images,     (* the disks: what mkfs was called with                      *)
  Lookups,    (* the paths the client looks up, as sequences of names      *)
  Links,      (* the names the client gives to files                       *)
  Clients,    (* bounds of the model: the kinds of calls one client makes, *)
              (* the types of inodes it makes, whether it writes to files, *)
              (* the lengths it reads and writes in cells, and how many of *)
              (* its calls change the disk                                 *)
  MAXPTRS,    (* bound of the model: references the client has at a time   *)
  MAXREF,     (* bound of the model: references to a slot, with lost ones  *)
  FULL_CACHE  (* whether the client goes on when no slot is free           *)

ASSUME FileSystemAssumption ==
  /\ {NINODE, NFILE, LOGSIZE, UINT, MAXPTRS, MAXREF} \subseteq Nat \ {0}
  /\ UINT > MAXFILE * BSIZE
  /\ NINODES <= FSSIZE
  /\ LOGSIZE >= 6             \* filewrite writes at least a block at a time
  /\ Lookups \subseteq Seq(Name)
  /\ \A files \in Images : Fits(files)
  /\ \A c \in Clients : /\ c.counts \subseteq 1 .. UINT - 1 /\ c.writes \subseteq BOOLEAN
                         /\ c.types \subseteq {"dir", "file", "dev"}
  /\ Links \subseteq Name /\ FULL_CACHE \in BOOLEAN

Slots == 1 .. NINODE
Files == 1 .. NFILE
NULL  == 0

VARIABLES
  fs,   (* the disk - used, dinode, data -, the inode cache icache, the    *)
        (* file table ftable, and whether a buffer was never released      *)
  ptr,  (* per slot, how many references to it the client has              *)
  client,  (* which client it is                                           *)
  changes  (* how many calls have changed the disk                         *)

fsVars == <<fs, ptr, client, changes>>

Returns(s, r) == [s |-> s, r |-> r]

-----------------------------------------------------------------------------
(***************************************************************************)
(* Blocks                                                                  *)
(***************************************************************************)
\* The first free block, zeroed; 0 if there is none.
balloc(s) ==
  LET free == Blocks \ s.used
  IN  IF free = {} THEN Returns(s, 0)
      ELSE Returns([s EXCEPT !.used = @ \cup {Min(free)}, !.data[Min(free)] = ZeroBlock], Min(free))

\* Freeing a free block returns without releasing the bitmap's buffer.
bfree(s, b) == IF b \in s.used THEN [s EXCEPT !.used = @ \ {b}] ELSE [s EXCEPT !.stuck = TRUE]

\* The blocks of a list that are not 0, freed one after the other.
Freed(s, list) ==
  LET after[k \in 0 .. Len(list)] ==
        IF k = 0 THEN s
        ELSE IF list[k] = 0 THEN after[k - 1] ELSE bfree(after[k - 1], list[k])
  IN  after[Len(list)]

-----------------------------------------------------------------------------
(***************************************************************************)
(* Inodes.  ip is a slot of the cache.                                     *)
(***************************************************************************)
OnDisk(ip) == [type |-> ip.type, nlink |-> ip.nlink, size |-> ip.size, addrs |-> ip.addrs]

NoInode == [inum |-> 0, ref |-> 0, flags |-> {}, type |-> "free", nlink |-> 0, size |-> 0,
            addrs |-> FreeDinode.addrs]

iget_FirstEmpty(s, i) ==
  LET empty == {ip \in Slots : s.icache[ip].ref = 0}
      stop  == IF empty = {} THEN NINODE ELSE Min(empty)
      found == {ip \in 1 .. stop : s.icache[ip].ref > 0 /\ s.icache[ip].inum = i}
  IN  IF found # {} THEN Returns([s EXCEPT !.icache[Min(found)].ref = @ + 1], Min(found))
      ELSE IF empty = {} THEN Returns(s, NULL)
      ELSE Returns([s EXCEPT !.icache[Min(empty)] =
                      [@ EXCEPT !.inum = i, !.ref = 1, !.flags = {}]], Min(empty))

iget_KeepsFlags(s, i) ==
  LET found == {ip \in Slots : s.icache[ip].ref > 0 /\ s.icache[ip].inum = i}
      empty == {ip \in Slots : s.icache[ip].ref = 0}
  IN  IF found # {} THEN Returns([s EXCEPT !.icache[Min(found)].ref = @ + 1], Min(found))
      ELSE IF empty = {} THEN Returns(s, NULL)
      ELSE Returns([s EXCEPT !.icache[Min(empty)] = [@ EXCEPT !.inum = i, !.ref = 1]], Min(empty))

\* A recycled slot keeps the type, size and addresses of the inode it was for.
iget(s, i) ==
  LET found == {ip \in Slots : s.icache[ip].ref > 0 /\ s.icache[ip].inum = i}
      empty == {ip \in Slots : s.icache[ip].ref = 0}
  IN  IF found # {} THEN Returns([s EXCEPT !.icache[Min(found)].ref = @ + 1], Min(found))
      ELSE IF empty = {} THEN Returns(s, NULL)
      ELSE Returns([s EXCEPT !.icache[Min(empty)] =
                      [@ EXCEPT !.inum = i, !.ref = 1, !.flags = {}]], Min(empty))

\* The inode stays allocated when there is no slot for it.
ialloc(s, type) ==
  LET free == {i \in Inodes : s.dinode[i].type = "free"}
  IN  IF free = {} THEN Returns(s, NULL)
      ELSE iget([s EXCEPT !.dinode[Min(free)] = [FreeDinode EXCEPT !.type = type]], Min(free))

iupdate(s, ip) == [s EXCEPT !.dinode[s.icache[ip].inum] = OnDisk(s.icache[ip])]

idup(s, ip) == [s EXCEPT !.icache[ip].ref = @ + 1]

\* For a slot that is not locked: otherwise ilock never returns.
ilock(s, ip) ==
  IF ip = NULL \/ s.icache[ip].ref < 1 THEN s
  ELSE LET d == s.dinode[s.icache[ip].inum] IN
       IF "VALID" \in s.icache[ip].flags THEN [s EXCEPT !.icache[ip].flags = @ \cup {"BUSY"}]
       ELSE [s EXCEPT !.icache[ip] =
               [@ EXCEPT !.flags = {"BUSY", "VALID"}, !.type = d.type, !.nlink = d.nlink,
                         !.size = d.size, !.addrs = d.addrs]]

iunlock(s, ip) ==
  IF ip = NULL \/ "BUSY" \notin s.icache[ip].flags \/ s.icache[ip].ref < 1 THEN s
  ELSE [s EXCEPT !.icache[ip].flags = @ \ {"BUSY"}]

itrunc_KeepsTable(s, ip) ==
  LET addrs == s.icache[ip].addrs
      inner == [n \in 1 .. NINDIRECT |-> s.data[addrs[NDIRECT]][n - 1].num]
      all   == [n \in 1 .. NDIRECT |-> addrs[n - 1]]
                 \o IF addrs[NDIRECT] = 0 THEN <<>> ELSE inner
  IN  iupdate([Freed(s, all) EXCEPT !.icache[ip].addrs = FreeDinode.addrs, !.icache[ip].size = 0], ip)

\* The direct blocks, the blocks in the indirect block, and that block itself.
itrunc(s, ip) ==
  LET addrs == s.icache[ip].addrs
      inner == [n \in 1 .. NINDIRECT |-> s.data[addrs[NDIRECT]][n - 1].num]
      all   == [n \in 1 .. NDIRECT |-> addrs[n - 1]]
                 \o IF addrs[NDIRECT] = 0 THEN <<>> ELSE inner \o <<addrs[NDIRECT]>>
  IN  iupdate([Freed(s, all) EXCEPT !.icache[ip].addrs = FreeDinode.addrs, !.icache[ip].size = 0], ip)

iput_AnyRef(s, ip) ==
  LET freed == iupdate([itrunc(s, ip) EXCEPT !.icache[ip].type = "free"], ip)
  IN  IF "VALID" \in s.icache[ip].flags /\ s.icache[ip].nlink = 0
      THEN IF "BUSY" \in s.icache[ip].flags THEN s
           ELSE [freed EXCEPT !.icache[ip].flags = {}, !.icache[ip].ref = @ - 1]
      ELSE [s EXCEPT !.icache[ip].ref = @ - 1]

\* The last reference to a locked inode without links is not dropped.
iput(s, ip) ==
  LET freed == iupdate([itrunc(s, ip) EXCEPT !.icache[ip].type = "free"], ip)
  IN  IF /\ s.icache[ip].ref = 1
         /\ "VALID" \in s.icache[ip].flags
         /\ s.icache[ip].nlink = 0
      THEN IF "BUSY" \in s.icache[ip].flags THEN s
           ELSE [freed EXCEPT !.icache[ip].flags = {}, !.icache[ip].ref = @ - 1]
      ELSE [s EXCEPT !.icache[ip].ref = @ - 1]

iunlockput(s, ip) == iput(iunlock(s, ip), ip)

-----------------------------------------------------------------------------
(***************************************************************************)
(* Inode content                                                           *)
(***************************************************************************)
\* The inode's address n, with a block allocated for it if it is 0.
Filled(s, ip, n) ==
  LET With(new) == [new.s EXCEPT !.icache[ip].addrs[n] = new.r]
  IN  IF s.icache[ip].addrs[n] # 0 THEN s ELSE With(balloc(s))

Direct(s, ip, n) == Returns(s, s.icache[ip].addrs[n])

\* Entry n of the indirect block, with a block allocated for it if it is 0.
Indirect(s, ip, n) ==
  LET table == s.icache[ip].addrs[NDIRECT]
      With(new) == Returns([new.s EXCEPT !.data[table][n] = Address(new.r)], new.r)
  IN  IF s.data[table][n].num # 0 THEN Returns(s, s.data[table][n].num) ELSE With(balloc(s))

bmap_LastDirect(s, ip, bn) ==
  IF bn <= NDIRECT THEN Direct(Filled(s, ip, bn), ip, bn)
  ELSE Indirect(Filled(s, ip, NDIRECT), ip, bn - NDIRECT)

bmap(s, ip, bn) ==
  IF bn < NDIRECT THEN Direct(Filled(s, ip, bn), ip, bn)
  ELSE IF bn < MAXFILE THEN Indirect(Filled(s, ip, NDIRECT), ip, bn - NDIRECT)
  ELSE Returns(s, -1)

\* No device has a read or a write function.
readi(s, ip, off, n) ==
  LET size == s.icache[ip].size
      m    == IF off + n > size THEN size - off ELSE n
      From(acc, at, o) == [acc EXCEPT !.s = at.s, !.cells = Append(@, at.s.data[at.r][o])]
      ReadCell(acc, o) == From(acc, bmap(acc.s, ip, o \div BSIZE), o % BSIZE)
      read[k \in 0 .. m] == IF k = 0 THEN [s |-> s, r |-> m, cells |-> <<>>]
                            ELSE ReadCell(read[k - 1], off + k - 1)
  IN  IF s.icache[ip].type = "dev" \/ off > size \/ (off + n) % UINT < off
      THEN [s |-> s, r |-> -1, cells |-> <<>>]
      ELSE read[m]

\* n cells written from off on, all the same.
Written(s, ip, off, n, cell) ==
  LET Into(at, o) == [at.s EXCEPT !.data[at.r][o] = cell]
      WriteCell(acc, o) == Into(bmap(acc, ip, o \div BSIZE), o % BSIZE)
      written[k \in 0 .. n] == IF k = 0 THEN s ELSE WriteCell(written[k - 1], off + k - 1)
  IN  written[n]

Refused(s, ip, off, n) ==
  \/ s.icache[ip].type = "dev" \/ off > s.icache[ip].size
  \/ (off + n) % UINT < off \/ off + n > MAXFILE * BSIZE

Grown_NoUpdate(s, ip, size) ==
  IF size > s.icache[ip].size THEN [s EXCEPT !.icache[ip].size = size] ELSE s

writei_NoUpdate(s, ip, off, n, cell) ==
  IF Refused(s, ip, off, n) THEN Returns(s, -1)
  ELSE Returns(Grown_NoUpdate(Written(s, ip, off, n, cell), ip, off + n), n)

\* A size that grows is saved, with the addresses.
Grown(s, ip, size) ==
  IF size > s.icache[ip].size THEN iupdate([s EXCEPT !.icache[ip].size = size], ip) ELSE s

writei(s, ip, off, n, cell) ==
  IF Refused(s, ip, off, n) THEN Returns(s, -1)
  ELSE Returns(Grown(Written(s, ip, off, n, cell), ip, off + n), n)

-----------------------------------------------------------------------------
(***************************************************************************)
(* Directories and names                                                   *)
(***************************************************************************)
\* Of a name and an entry's, which was cut when it was stored.
namecmp(name, stored) == Cut[name] = stored

NoName == ""

\* An entry with the name or, without a name, an empty entry.
Wanted(de, name) ==
  IF name = NoName THEN de.num = 0 ELSE de.num # 0 /\ namecmp(name, de.name)

\* The loop over a directory's entries, up to one that is wanted; at is where
\* it was, or the size.
Entries(s, dp, name) ==
  LET size == s.icache[dp].size
      Look(read, o) == [s |-> read.s, de |-> read.cells[1],
                        at |-> IF Wanted(read.cells[1], name) THEN o ELSE size]
      LookAt(acc, o) == IF acc.at # size THEN acc ELSE Look(readi(acc.s, dp, o, 1), o)
      looked[k \in 0 .. size] == IF k = 0 THEN [s |-> s, at |-> size, de |-> Zero]
                                 ELSE LookAt(looked[k - 1], k - 1)
  IN  looked[size]

dirlookup(s, dp, name) ==
  LET Got(hit) == IF hit.at = s.icache[dp].size THEN Returns(hit.s, NULL)
                  ELSE iget(hit.s, hit.de.num)
  IN  IF s.icache[dp].type # "dir" THEN Returns(s, NULL)
      ELSE Got(Entries(s, dp, name))

\* An empty entry, or the end, gets the name.
Linked(s, dp, name, i) ==
  LET Done(new) == Returns(new.s, IF new.r = 1 THEN 0 ELSE -1)
      At(free)  == Done(writei(free.s, dp, free.at, 1, Dirent(name, i)))
  IN  At(Entries(s, dp, NoName))

dirlink_KeepsRef(s, dp, name, i) ==
  LET If(old) == IF old.r # NULL THEN Returns(old.s, -1) ELSE Linked(old.s, dp, name, i)
  IN  If(dirlookup(s, dp, name))

dirlink_Unchecked(s, dp, name, i) == Linked(s, dp, name, i)

dirlink(s, dp, name, i) ==
  LET If(old) == IF old.r # NULL THEN Returns(iput(old.s, old.r), -1)
                 ELSE Linked(old.s, dp, name, i)
  IN  If(dirlookup(s, dp, name))

\* The next element of a path, cut to DIRSIZ characters, and what is left.
skipelem(path) == [name |-> Cut[Head(path)], path |-> Tail(path)]

\* The inodes on the way are neither locked nor given back.
namex(s, path, nameiparent) ==
  LET root == iget(s, ROOTINO)
      To(next) == [s |-> next.s, ip |-> next.r, done |-> next.r = NULL]
      Step(acc, k) ==
        LET elem == skipelem(SubSeq(path, k, Len(path)))
        IN  IF acc.done THEN acc
            ELSE IF acc.s.icache[acc.ip].type # "dir" THEN [acc EXCEPT !.done = TRUE, !.ip = NULL]
            ELSE IF nameiparent /\ elem.path = <<>> THEN [acc EXCEPT !.done = TRUE]
            ELSE To(dirlookup(acc.s, acc.ip, elem.name))
      End(walk) == IF nameiparent /\ ~walk.done THEN Returns(iput(walk.s, walk.ip), NULL)
                   ELSE Returns(walk.s, walk.ip)
      walked[k \in 0 .. Len(path)] == IF k = 0 THEN [s |-> root.s, ip |-> root.r, done |-> FALSE]
                                      ELSE Step(walked[k - 1], k)
  IN  End(walked[Len(path)])

namei(s, path) == namex(s, path, FALSE)

nameiparent(s, path) == namex(s, path, TRUE)

-----------------------------------------------------------------------------
(***************************************************************************)
(* file.c.  f is a slot of the file table.                                 *)
(***************************************************************************)
NoFileOpen == [ref |-> 0, type |-> "none", ip |-> NULL, off |-> 0, writable |-> FALSE]

\* filealloc, and the fields as ls() and cat() set them.
filealloc(s, ip, writable) ==
  LET free == {f \in Files : s.ftable[f].ref = 0}
  IN  IF free = {} THEN Returns(s, NULL)
      ELSE Returns([s EXCEPT !.ftable[Min(free)] =
                      [ref |-> 1, type |-> "inode", ip |-> ip, off |-> 0, writable |-> writable]],
                   Min(free))

filedup(s, f) == IF s.ftable[f].ref < 1 THEN s ELSE [s EXCEPT !.ftable[f].ref = @ + 1]

fileclose_Always(s, f) ==
  iput([s EXCEPT !.ftable[f].ref = @ - 1], s.ftable[f].ip)

\* What is left in the fields is not looked at: whoever gets the slot sets them.
fileclose(s, f) ==
  LET ff     == s.ftable[f]
      closed == [s EXCEPT !.ftable[f] = NoFileOpen]
  IN  IF ff.ref < 1 THEN s
      ELSE IF ff.ref > 1 THEN [s EXCEPT !.ftable[f].ref = @ - 1]
      ELSE IF ff.type = "inode" THEN iput(closed, ff.ip) ELSE closed

filestat(s, f) ==
  IF s.ftable[f].type = "inode" THEN iunlock(ilock(s, s.ftable[f].ip), s.ftable[f].ip) ELSE s

\* The file's offset moves by what was read or written.
Moved(call, f) == IF call.r > 0 THEN [call.s EXCEPT !.ftable[f].off = @ + call.r] ELSE call.s

fileread(s, f, n) ==
  LET ip == s.ftable[f].ip
  IN  IF s.ftable[f].type # "inode" THEN s
      ELSE iunlock(Moved(readi(ilock(s, ip), ip, s.ftable[f].off, n), f), ip)

\* A few blocks at a time; what was written before a failure stays.
filewrite(s, f, n, cell) ==
  LET ip  == s.ftable[f].ip
      max == ((LOGSIZE - 1 - 1 - 2) \div 2) * BSIZE
      After(acc, write, n1) ==
        [s |-> iunlock(Moved(write, f), ip), i |-> acc.i + n1, failed |-> write.r # n1]
      Chunk(acc) ==
        LET n1 == IF n - acc.i > max THEN max ELSE n - acc.i
        IN  IF acc.i = n \/ acc.failed THEN acc
            ELSE After(acc, writei(ilock(acc.s, ip), ip, acc.s.ftable[f].off, n1, cell), n1)
      chunks[k \in 0 .. n] == IF k = 0 THEN [s |-> s, i |-> 0, failed |-> FALSE] ELSE Chunk(chunks[k - 1])
  IN  IF ~s.ftable[f].writable \/ s.ftable[f].type # "inode" THEN s ELSE chunks[n].s

-----------------------------------------------------------------------------
(***************************************************************************)
(* The client                                                              *)
(***************************************************************************)
Locked(ip) == "BUSY" \in fs.icache[ip].flags

FilesOf(ip) == {f \in Files : fs.ftable[f].ref > 0 /\ fs.ftable[f].ip = ip}

\* The references there should be to a slot: the client's and the files'.
Pointers(ip) == ptr[ip] + Cardinality(FilesOf(ip))

\* The entries in directories that name inode i, from what is on the disk.
Entry(i) == \E b \in Blocks, c \in 0 .. BSIZE - 1 :
              fs.data[b][c].num = i /\ fs.data[b][c].name \in Name

Room == FULL_CACHE \/ \E ip \in Slots : fs.icache[ip].ref = 0
MorePointers == MapThenSumSet(Pointers, Slots) < MAXPTRS

Init ==
  /\ \E files \in Images :
       LET disk == mkfs(files)
       IN  fs = [used |-> disk.used, dinode |-> disk.dinode, data |-> disk.data,
                 icache |-> [ip \in Slots |-> NoInode], ftable |-> [f \in Files |-> NoFileOpen],
                 stuck |-> FALSE]
  /\ ptr = [ip \in Slots |-> 0]
  /\ client \in Clients
  /\ changes = 0

\* A call that returns a slot gives the client a reference to it.
Gets(call) ==
  /\ fs' = call.s
  /\ ptr' = IF call.r = NULL THEN ptr ELSE [ptr EXCEPT ![call.r] = @ + 1]

\* The thread has the number from a directory entry.
Iget(i) ==
  /\ MorePointers /\ Room /\ Entry(i)
  /\ Gets(iget(fs, i))

Ialloc(type) ==
  /\ MorePointers /\ Room
  /\ Gets(ialloc(fs, type))

Idup(ip) ==
  /\ ptr[ip] > 0 /\ MorePointers
  /\ Gets(Returns(idup(fs, ip), ip))

\* One inode at a time.
Ilock(ip) ==
  /\ ptr[ip] > 0 /\ \A other \in Slots : ~Locked(other)
  /\ fs' = ilock(fs, ip)
  /\ UNCHANGED ptr

Iunlock(ip) ==
  /\ ptr[ip] > 0 /\ Locked(ip)
  /\ fs' = iunlock(fs, ip)
  /\ UNCHANGED ptr

\* The client keeps a reference to what it has locked.
Iput(ip) ==
  /\ ptr[ip] > (IF Locked(ip) THEN 1 ELSE 0)
  /\ fs' = iput(fs, ip)
  /\ ptr' = [ptr EXCEPT ![ip] = @ - 1]

Iunlockput(ip) ==
  /\ ptr[ip] > 0 /\ Locked(ip)
  /\ fs' = iunlockput(fs, ip)
  /\ ptr' = [ptr EXCEPT ![ip] = @ - 1]

\* The link count is changed and saved; it is not 0 for the root, or for what a
\* directory names.
SetLinks(ip, n) ==
  /\ ptr[ip] > 0 /\ Locked(ip)
  /\ n > 0 \/ (fs.icache[ip].inum # ROOTINO /\ ~Entry(fs.icache[ip].inum))
  /\ fs' = iupdate([fs EXCEPT !.icache[ip].nlink = n], ip)
  /\ UNCHANGED ptr

Readi(ip, off, n) ==
  /\ ptr[ip] > 0 /\ Locked(ip)
  /\ fs' = readi(fs, ip, off, n).s
  /\ UNCHANGED ptr

Writei(ip, off, n) ==
  /\ ptr[ip] > 0 /\ Locked(ip) /\ fs.icache[ip].type = "file"
  /\ fs' = writei(fs, ip, off, n, Data(fs.icache[ip].inum)).s
  /\ UNCHANGED ptr

Dirlookup(dp, name) ==
  /\ ptr[dp] > 0 /\ Locked(dp) /\ MorePointers /\ Room
  /\ Gets(dirlookup(fs, dp, name))

\* The client links what it has, and what counts its links.
Dirlink(dp, name, ip) ==
  /\ ptr[dp] > 0 /\ Locked(dp) /\ fs.icache[dp].type = "dir" /\ Room
  /\ ptr[ip] > 0 /\ fs.dinode[fs.icache[ip].inum].nlink > 0
  /\ fs' = dirlink(fs, dp, name, fs.icache[ip].inum).s
  /\ UNCHANGED ptr

\* Without a slot for the root, namex would go on with a null pointer.
CanWalk ==
  /\ MorePointers /\ Room /\ \A ip \in Slots : fs.icache[ip].ref < MAXREF
  /\ iget(fs, ROOTINO).r # NULL

Namei(path) == CanWalk /\ Gets(namei(fs, path))

Nameiparent(path) == CanWalk /\ Gets(nameiparent(fs, path))

\* The reference goes from the client to the file.
Open(ip, writable) ==
  /\ ptr[ip] > (IF Locked(ip) THEN 1 ELSE 0)
  /\ LET new == filealloc(fs, ip, writable) IN new.r # NULL /\ fs' = new.s
  /\ ptr' = [ptr EXCEPT ![ip] = @ - 1]

Filedup(f) ==
  /\ fs.ftable[f].ref \in 1 .. MAXREF - 1
  /\ fs' = filedup(fs, f)
  /\ UNCHANGED ptr

Fileclose(f) ==
  /\ fs.ftable[f].ref > 0
  /\ fs' = fileclose(fs, f)
  /\ UNCHANGED ptr

\* What the client does with a file, which locks its inode, when it has not.
UseFile(f) ==
  /\ fs.ftable[f].ref > 0 /\ ~Locked(fs.ftable[f].ip)
  /\ \/ fs' = filestat(fs, f)
     \/ \E n \in client.counts : fs' = fileread(fs, f, n)
     \/ \E n \in client.counts :
          /\ n < UINT \div 2 /\ fs.dinode[fs.icache[fs.ftable[f].ip].inum].type # "dir"
          /\ fs' = filewrite(fs, f, n, Data(fs.icache[fs.ftable[f].ip].inum))
  /\ UNCHANGED ptr

Disk == <<fs.used, fs.dinode, fs.data>>

References ==
  \/ \E i \in Inodes : Iget(i)
  \/ \E ip \in Slots : Idup(ip) \/ Ilock(ip) \/ Iunlock(ip) \/ Iput(ip) \/ Iunlockput(ip)

Allocation == \E type \in client.types : Ialloc(type)

Linking == \E ip \in Slots, n \in {0, 1} : SetLinks(ip, n)

\* At the start, at the end and behind the end; what is in between is not told apart.
Contents ==
  \E ip \in Slots, n \in client.counts :
    \E off \in {0, fs.icache[ip].size, fs.icache[ip].size + 1} : Readi(ip, off, n) \/ Writei(ip, off, n)

Directory ==
  \E dp \in Slots, name \in Links :
    Dirlookup(dp, name) \/ \E ip \in Slots : Dirlink(dp, name, ip)

Lookup == \E path \in Lookups : Namei(path) \/ Nameiparent(path)

OpenFiles ==
  \/ \E ip \in Slots, writable \in client.writes : Open(ip, writable)
  \/ \E f \in Files : Filedup(f) \/ Fileclose(f) \/ UseFile(f)

Next ==
  /\ \/ References
     \/ "allocation" \in client.calls /\ Allocation
     \/ "links" \in client.calls /\ Linking
     \/ "contents" \in client.calls /\ Contents
     \/ "directory" \in client.calls /\ Directory
     \/ "lookup" \in client.calls /\ Lookup
     \/ "files" \in client.calls /\ OpenFiles
  /\ changes' = changes + IF Disk' = Disk THEN 0 ELSE 1
  /\ changes' <= client.changes
  /\ UNCHANGED client

Spec == Init /\ [][Next]_fsVars

-----------------------------------------------------------------------------
\* Types.
FSTypeOK ==
  /\ fs.used \subseteq Blocks
  /\ fs.dinode \in [Inodes -> Dinode]
  /\ \A b \in Blocks : fs.data[b] \in [0 .. BSIZE - 1 -> Cell]
  /\ \A ip \in Slots : /\ fs.icache[ip].inum \in 0 .. NINODES - 1
                        /\ fs.icache[ip].ref \in Nat
                        /\ fs.icache[ip].flags \subseteq {"BUSY", "VALID"}
                        /\ OnDisk(fs.icache[ip]) \in Dinode
  /\ fs.ftable \in [Files -> [ref : Nat, type : {"none", "inode"}, ip : Slots \cup {NULL},
                              off : 0 .. MAXFILE * BSIZE, writable : BOOLEAN]]
  /\ fs.stuck \in BOOLEAN
  /\ ptr \in [Slots -> Nat]

(***************************************************************************)
(* "Is the inode already cached?" (fs.c:226): two slots in use are never   *)
(* for the same inode, or each would have a size and addresses of its own. *)
(***************************************************************************)
InUse == {ip \in Slots : fs.icache[ip].ref > 0}

OneSlotPerInode ==
  \A ip, other \in InUse : fs.icache[ip].inum = fs.icache[other].inum => ip = other

(***************************************************************************)
(* "ip->ref tracks the number of in-memory pointers to the entry"          *)
(* (fs.c:122): it is never less, so that no slot is recycled under a       *)
(* pointer, and it stays the same number above it except for what a path   *)
(* lookup loses.                                                           *)
(***************************************************************************)
Lost(ip) == fs.icache[ip].ref - Pointers(ip)

NoDanglingPointer == \A ip \in Slots : Lost(ip) >= 0

OnlyLookupsLose == [][(\A ip \in Slots : Lost(ip)' = Lost(ip)) \/ Lookup]_fsVars

ReferencesCounted == []NoDanglingPointer /\ OnlyLookupsLose

(***************************************************************************)
(* "The information in an inode cache entry is only correct when the       *)
(* I_VALID bit is set" (fs.c:129): then it is what is on the disk, once    *)
(* whoever changed it is done, and nothing is lost when it is recycled.    *)
(***************************************************************************)
ValidAgrees ==
  \A ip \in InUse :
    "VALID" \in fs.icache[ip].flags /\ ~Locked(ip) =>
      OnDisk(fs.icache[ip]) = fs.dinode[fs.icache[ip].inum]

(***************************************************************************)
(* The inode as the code sees it: in memory if it is there.                *)
(***************************************************************************)
Holders(i) == {ip \in Slots : /\ fs.icache[ip].ref > 0 /\ fs.icache[ip].inum = i
                             /\ "VALID" \in fs.icache[ip].flags}

Current(i) ==
  LET holders == Holders(i)
  IN  IF holders = {} THEN fs.dinode[i] ELSE OnDisk(fs.icache[CHOOSE ip \in holders : TRUE])

\* The block for the file's nth cells, or 0.
BlockAt(inode, n) ==
  IF n < NDIRECT THEN inode.addrs[n]
  ELSE IF inode.addrs[NDIRECT] = 0 THEN 0 ELSE fs.data[inode.addrs[NDIRECT]][n - NDIRECT].num

\* All its blocks, each with the file and the place in it.
BlocksOf(i) ==
  LET inode == Current(i)
  IN  {<<BlockAt(inode, n), i, n>> : n \in 0 .. MAXFILE - 1} \cup {<<inode.addrs[NDIRECT], i, MAXFILE>>}

(***************************************************************************)
(* A block marked in use is part of one file, in one place, and every      *)
(* block of a file is marked; so no call frees a free block, and no block  *)
(* is lost or given out twice (fs.c:49-95, 352-409 and mkfs.c:238-301).    *)
(***************************************************************************)
BlocksAccounted ==
  LET places == {place \in UNION {BlocksOf(i) : i \in Inodes} : place[1] # 0}
  IN  /\ {place[1] : place \in places} = fs.used \ (0 .. nmeta - 1)
      /\ \A place, other \in places : place[1] = other[1] => place = other
      /\ ~fs.stuck

\* fs.h:7: "Block 0 is unused."
BlockZeroUnused == fs.data[0] = ZeroBlock

Content(i) ==
  LET inode == Current(i)
      CellAt(k) ==
        LET b == BlockAt(inode, k \div BSIZE) IN IF b = 0 THEN Zero ELSE fs.data[b][k % BSIZE]
  IN  [k \in 1 .. inode.size |-> CellAt(k - 1)]

(***************************************************************************)
(* A file has the content that was written to it: one call changes one     *)
(* file, by the cells it is to write, and locking, reading, looking up,    *)
(* recycling and reading in again change none.                             *)
(***************************************************************************)
Store == INSTANCE FileStore WITH
  Inum     <- Inodes,
  Blank    <- Zero,
  MAXCELLS <- MAXFILE * BSIZE,
  there    <- [i \in Inodes |-> Current(i).type # "free"],
  content  <- [i \in Inodes |-> Content(i)]

ImplementsFileStore == Store!Spec

(***************************************************************************)
(* An inode is freed only when no directory names it, and nobody has a     *)
(* pointer to it (fs.c:377-380).                                           *)
(***************************************************************************)
FreedWhenUnused ==
  [][\A i \in Inodes :
       fs.dinode[i].type # "free" /\ fs'.dinode[i].type = "free" =>
         /\ fs.dinode[i].nlink = 0 /\ ~Entry(i)
         /\ \A ip \in Slots : fs.icache[ip].inum = i => Pointers(ip)' = 0]_fsVars

(***************************************************************************)
(* "Check that name is not present" (fs.c:531): a directory has a name     *)
(* once, however the long names were cut.                                  *)
(***************************************************************************)
Named(i, name) ==
  SelectSeq(Content(i), LAMBDA de : de.num # 0 /\ namecmp(name, de.name))

Directories == {i \in Inodes : Current(i).type = "dir"}

NamesUnique == \A i \in Directories, name \in Name : Len(Named(i, name)) <= 1

(***************************************************************************)
(* A lookup from a root directory that has been read finds what the root   *)
(* names, and nothing else (fs.c:594-637).                                 *)
(***************************************************************************)
NameiFinds ==
  Holders(ROOTINO) # {} /\ (\E ip \in Slots : fs.icache[ip].ref = 0) =>
    LET IsRight(found, named) ==
          IF named = <<>> THEN found.r = NULL
          ELSE found.r # NULL /\ found.s.icache[found.r].inum = Head(named).num
    IN  \A name \in Name : IsRight(namei(fs, <<name>>), Named(ROOTINO, name))
===============================================================================
