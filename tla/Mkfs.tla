---------------------------------- MODULE Mkfs --------------------------------
(***************************************************************************)
(* The disk of A.ide: its layout (include/fs.h) and the file system that   *)
(* tools/mkfs.c puts on it, which is where the kernel's file system        *)
(* (FileSystem) starts from.                                               *)
(*                                                                         *)
(* A block holds BSIZE cells.  A cell is what is read or written as one:   *)
(* a directory entry, a block address in an indirect block, or one item of *)
(* a file's data.  Inode blocks and the bitmap are kept apart from the     *)
(* rest, as the functions dinode and used; the super block is the          *)
(* constants.                                                              *)
(***************************************************************************)
EXTENDS Integers, Sequences, SequencesExt

CONSTANTS
  BSIZE,     (* cells in a block, and so addresses in an indirect block    *)
  IPB,       (* inodes in a block                                          *)
  BPB,       (* bitmap bits in a block                                     *)
  NDIRECT,   (* addresses in an inode, the indirect block's aside          *)
  NINODES,   (* inodes on the disk                                         *)
  FSSIZE,    (* blocks on the disk                                         *)
  Name,      (* file names                                                 *)
  Cut        (* the first DIRSIZ characters of a name, where only they     *)
             (* are kept or compared                                       *)

ASSUME DiskAssumption ==
  /\ {BSIZE, IPB, BPB, NDIRECT, NINODES, FSSIZE} \subseteq Nat \ {0}
  /\ NINODES > 1
  /\ {".", ".."} \subseteq Name /\ "" \notin Name /\ "data" \notin Name
  /\ Cut \in [Name -> Name]
  /\ \A name \in Name : Cut[Cut[name]] = Cut[name]

ROOTINO   == 1
NINDIRECT == BSIZE
MAXFILE   == NDIRECT + NINDIRECT

\* Block containing inode i; block containing bit for block b.
IBLOCK(i) == i \div IPB + 2
BBLOCK(b) == b \div BPB + NINODES \div IPB + 3

Blocks == 0 .. FSSIZE - 1
Inodes == 1 .. NINODES - 1

Zero          == [num |-> 0, name |-> ""]
Dirent(n, i)  == [num |-> i, name |-> Cut[n]]
Address(b)    == [num |-> b, name |-> ""]
Data(i)       == [num |-> i, name |-> "data"]

Cell   == [num : 0 .. FSSIZE + NINODES, name : Name \cup {"", "data"}]
Dinode == [type : {"free", "dir", "file", "dev"}, nlink : Nat, size : Nat,
           addrs : [0 .. NDIRECT -> Blocks]]

ZeroBlock  == [c \in 0 .. BSIZE - 1 |-> Zero]
FreeDinode == [type |-> "free", nlink |-> 0, size |-> 0, addrs |-> [n \in 0 .. NDIRECT |-> 0]]

-----------------------------------------------------------------------------
(***************************************************************************)
(* mkfs.  m is the disk image with the two counters freeinode and          *)
(* freeblock.                                                              *)
(***************************************************************************)
ninodeblocks == NINODES \div IPB + 1
nbitmap      == FSSIZE \div BPB + 1
nmeta        == 2 + ninodeblocks + nbitmap

winode(m, i, din) == [m EXCEPT !.dinode[i] = din]
rinode(m, i)      == m.dinode[i]

mkfs_ialloc(m, type) ==
  [winode(m, m.freeinode, [FreeDinode EXCEPT !.type = type, !.nlink = 1])
     EXCEPT !.freeinode = @ + 1]

\* The image with a block for the file's next cell, which is appended at size.
BlockAppended(m, i) ==
  LET fbn  == rinode(m, i).size \div BSIZE
      With(image, n) ==
        IF rinode(image, i).addrs[n] # 0 THEN image
        ELSE [image EXCEPT !.dinode[i].addrs[n] = image.freeblock, !.freeblock = @ + 1]
      InTable(image, table, n) ==
        IF image.data[table][n].num # 0 THEN image
        ELSE [image EXCEPT !.data[table][n] = Address(image.freeblock), !.freeblock = @ + 1]
      Indirect(image) == InTable(image, rinode(image, i).addrs[NDIRECT], fbn - NDIRECT)
  IN  IF fbn < NDIRECT THEN With(m, fbn) ELSE Indirect(With(m, NDIRECT))

\* The block that holds the file's nth block of cells.
BlockOf(m, i, n) ==
  IF n < NDIRECT THEN rinode(m, i).addrs[n]
  ELSE m.data[rinode(m, i).addrs[NDIRECT]][n - NDIRECT].num

iappend(m, i, cells) ==
  LET Put(with, off, cell) ==
        [with EXCEPT !.data[BlockOf(with, i, off \div BSIZE)][off % BSIZE] = cell,
                     !.dinode[i].size = off + 1]
      AppendCell(image, cell) == Put(BlockAppended(image, i), rinode(image, i).size, cell)
      appended[k \in 0 .. Len(cells)] ==
        IF k = 0 THEN m ELSE AppendCell(appended[k - 1], cells[k])
  IN  appended[Len(cells)]

mkfs_balloc(m) == [m EXCEPT !.used = 0 .. m.freeblock - 1]

\* files is the command line: names, and how many cells each file has.
mkfs(files) ==
  LET empty == [used |-> {}, dinode |-> [i \in Inodes |-> FreeDinode],
                data |-> [b \in Blocks |-> ZeroBlock], freeinode |-> 1, freeblock |-> nmeta]
      AddFile(m, file) ==
        LET i == m.freeinode
        IN  iappend(iappend(mkfs_ialloc(m, "file"), ROOTINO, <<Dirent(file.name, i)>>),
                    i, [k \in 1 .. file.cells |-> Data(i)])
      root  == iappend(mkfs_ialloc(empty, "dir"), ROOTINO,
                       <<Dirent(".", ROOTINO), Dirent("..", ROOTINO)>>)
      \* The root's size, to the end of a block.
      Fixed(m) == [m EXCEPT !.dinode[ROOTINO].size = ((@ \div BSIZE) + 1) * BSIZE]
      Image(m) == [used |-> m.used, dinode |-> m.dinode, data |-> m.data]
      added[k \in 0 .. Len(files)] == IF k = 0 THEN root ELSE AddFile(added[k - 1], files[k])
  IN  Image(mkfs_balloc(Fixed(added[Len(files)])))

(***************************************************************************)
(* What mkfs was called with has room: an inode for every file, which it   *)
(* does not check, no file of more than MAXFILE blocks, which it asserts,  *)
(* and no more blocks than the disk has.                                   *)
(***************************************************************************)
Fits(files) ==
  /\ files \in Seq([name : Name, cells : Nat]) /\ Len(files) <= NINODES - 2
  /\ mkfs(files).used \subseteq Blocks
  /\ \A i \in Inodes : mkfs(files).dinode[i].size <= MAXFILE * BSIZE
===============================================================================
