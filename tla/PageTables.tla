------------------------------- MODULE PageTables -------------------------------
(***************************************************************************)
(* Page allocation, page tables and page faults of 5.PageFault,            *)
(* 6.MemPolicy and 8.UserProcess: a page is an array of words, and page    *)
(* directories, page tables and the list of free pages are words in pages, *)
(* as they are in the code.  ENTRIES stands for the 1024 words of a page,  *)
(* and an address is its directory index and its table index.              *)
(***************************************************************************)
EXTENDS Integers, FiniteSets

CONSTANTS
  Examples,    \* the examples to look at
  ENTRIES,     \* words of a page
  POOL,        \* pages of 8.UserProcess's page_address, 50 in the code
  Places,      \* where in a page page_address may start, in quarters
  Others,      \* addresses used besides the one in the code of 6.MemPolicy
  Value        \* what the processes store

ASSUME PageTablesAssumption ==
  /\ Examples \subseteq {"5.PageFault", "6.MemPolicy", "8.UserProcess"}
  /\ ENTRIES \in Nat /\ ENTRIES % 4 = 0 /\ ENTRIES >= 20
  /\ POOL \in 6 .. ENTRIES /\ Places \subseteq 0 .. 3
  /\ Others \subseteq (2 .. ENTRIES - 1) \X (0 .. ENTRIES - 1) /\ <<ENTRIES \div 2, 0>> \notin Others

VARIABLES
  ex,         \* the example
  mem,        \* physical memory: the words of every page
  freelist,   \* kmem.freelist
  pagetable,  \* each process's directory, or the word 0 before it is created
  active,     \* active_process
  cr3         \* the directory in use

vars == <<ex, mem, freelist, pagetable, active, cr3>>

Proc == {0, 1}
Nobody == -1
Slots == 0 .. ENTRIES - 1
Page == 0 .. 2 * ENTRIES - 1

(* Words. *)
Fill(byte) == <<"fill", byte>>
NULL == Fill(0)
Data(v) == <<"data", v>>
CODE == <<"code", 0>>

PAGE_PRESENT == "present"
PAGE_WRITE == "write"
PAGE_USER == "user"
KERNEL == {PAGE_PRESENT, PAGE_WRITE}
USER == KERNEL \cup {PAGE_USER}

\* The address of a page, with flags in its low bits.
Entry(page, flags) == IF page = 0 /\ flags = {} THEN NULL ELSE <<"page", page, flags>>
PageOf(word) == IF word[1] = "page" THEN word[2] ELSE 0
FlagsOf(word) == IF word[1] = "page" THEN word[3] ELSE {}

memset(m, page, byte) == [m EXCEPT ![page] = [i \in Slots |-> Fill(byte)]]

------------------------------------------------------------------------------
(* The allocator.  s is [mem, freelist, got]. *)

PAGE_SIZE == 4   \* in quarters
PAGE_STOP == 2 * ENTRIES * PAGE_SIZE
PAGE_ALIGN(a) == ((a + PAGE_SIZE - 1) \div PAGE_SIZE) * PAGE_SIZE

kfree(s, va) ==
  IF va % PAGE_SIZE # 0 \/ va >= PAGE_STOP THEN s
  ELSE LET page == va \div PAGE_SIZE
       IN  [s EXCEPT !.mem = [memset(@, page, 1) EXCEPT ![page][0] = s.freelist],
                     !.freelist = Entry(page, {})]

\* freed[n] is after n rounds of the loop.
freerange(s, vstart, vend) ==
  LET p      == PAGE_ALIGN(vstart)
      rounds == (vend - p) \div PAGE_SIZE
      freed[n \in 0 .. rounds] == IF n = 0 THEN s ELSE kfree(freed[n - 1], p + (n - 1) * PAGE_SIZE)
  IN  freed[rounds]

kinit(s, vstart, vend) == freerange(s, vstart, vend)

kalloc_Peeks(s) ==
  IF s.freelist = NULL THEN [s EXCEPT !.got = 0]
  ELSE [s EXCEPT !.mem = memset(s.mem, PageOf(s.freelist), 5), !.got = PageOf(s.freelist)]

kalloc(s) ==
  IF s.freelist = NULL THEN [s EXCEPT !.got = 0]
  ELSE LET page == PageOf(s.freelist)
       IN  [mem |-> memset(s.mem, page, 5), freelist |-> s.mem[page][0], got |-> page]

kpagemake_NoClear(s) == kalloc(s)

\* Without a page, it is page 0 that is cleared.
kpagemake(s) == LET k == kalloc(s) IN [k EXCEPT !.mem = memset(@, k.got, 0)]

Set(s, page, i, word) == [s EXCEPT !.mem[page][i] = word]

------------------------------------------------------------------------------
(* Address spaces.  Both leave the new directory in got. *)

\* The directory that SPEDE leaves in CR3, and the tables behind it.
SPEDE_DIRECTORY == 1
SPEDE_TABLE == 2
KernelEntries == 0 .. 4

\* The entries that setup_pagetable copies.
Inherited_Four == 0 .. 3
Inherited == 0 .. 4

\* 6.MemPolicy: the first two tables map memory onto itself.
MemPolicy_setup_pagetable(s) ==
  LET directory == kpagemake(s)
      first     == kpagemake(directory)
      low       == [first EXCEPT !.mem[first.got] = [i \in Slots |-> Entry(i, KERNEL)],
                                 !.mem[directory.got][0] = Entry(first.got, KERNEL)]
      second    == kpagemake(low)
  IN  [second EXCEPT !.mem[second.got] = [i \in Slots |-> Entry(i + ENTRIES, KERNEL)],
                     !.mem[directory.got][1] = Entry(second.got, KERNEL),
                     !.got = directory.got]

STACK == <<ENTRIES \div 2 - 1, ENTRIES - 1>>   \* the page below 0x80000000
CODE_START == <<ENTRIES \div 2, 0>>            \* the page at 0x80000000

UserProcess_setup_pagetable(s) ==
  LET directory == kpagemake(s)
      d         == directory.got
      kernel    == [directory EXCEPT !.mem[d] =
                     [i \in Slots |-> IF i \in Inherited THEN directory.mem[SPEDE_DIRECTORY][i] ELSE @[i]]]
      table1    == kpagemake(kernel)
      stack     == kpagemake(table1)
      mapped    == Set(Set(stack, table1.got, STACK[2], Entry(stack.got, USER)),
                       d, STACK[1], Entry(table1.got, USER))
      table2    == kpagemake(mapped)
      page      == kpagemake(table2)
      linked    == Set(Set(page, table2.got, CODE_START[2], Entry(page.got, USER)),
                       d, CODE_START[1], Entry(table2.got, USER))
  IN  [linked EXCEPT !.mem[page.got][0] = CODE, !.got = d]

------------------------------------------------------------------------------
(* Page faults. *)

\* A table's address with the flag bits still in it is 7 bytes too high: the store hits
\* the last byte of the word after the one meant, and three bytes of the next.  After the
\* last word of a page comes the next page.
StoreAt(m, address, i, word) ==
  IF FlagsOf(address) = {} THEN [m EXCEPT ![PageOf(address)][i] = word]
  ELSE [p \in Page |-> [k \in Slots |->
         IF (p - PageOf(address)) * ENTRIES + k - i \in {1, 2} THEN <<"torn", 0>> ELSE m[p][k]]]

MemPolicy_page_fault_handler(s, va) ==
  LET d      == PageOf(pagetable[active])
      empty  == s.mem[d][va[1]] = NULL
      table  == IF empty THEN kpagemake(s) ELSE s
      linked == IF empty THEN Set(table, d, va[1], Entry(table.got, USER)) ELSE s
      where  == IF empty THEN Entry(table.got, {}) ELSE s.mem[d][va[1]]
      new    == kpagemake(linked)
  IN  [new EXCEPT !.mem = StoreAt(@, where, va[2], Entry(new.got, USER))]

\* 5.PageFault: one page and one table for every fault, in the directory in CR3.
pg_table == 8
page == 9

PageFaultHandler(s, va) ==
  Set(Set(s, pg_table, va[2], Entry(page, KERNEL)),
      PageOf(cr3), va[1], Entry(pg_table, KERNEL))

------------------------------------------------------------------------------
(* What the processor makes of an address. *)

Ring3(p) == ex = "8.UserProcess" /\ p = 1
Needed(p) == IF Ring3(p) THEN USER ELSE KERNEL

\* The page an address leads to, or Nobody.
Translated(m, directory, va, flags) ==
  LET table == m[PageOf(directory)][va[1]]
      entry == m[PageOf(table)][va[2]]
  IN  IF flags \subseteq FlagsOf(table) \cap FlagsOf(entry) THEN PageOf(entry) ELSE Nobody

\* The address 0x40000000 of the processes of 5.PageFault and 6.MemPolicy.
X == <<ENTRIES \div 4, 0>>

Used(p) ==
  CASE ex = "5.PageFault" -> IF p = 0 THEN {X} ELSE {}
    [] ex = "6.MemPolicy" -> {X} \cup Others
    [] OTHER              -> IF p = 1 THEN {STACK} ELSE {}

------------------------------------------------------------------------------
State == [mem |-> mem, freelist |-> freelist, got |-> 0]

Becomes(s) == mem' = s.mem /\ freelist' = s.freelist

FirstMemory ==
  [p \in Page |-> [i \in Slots |->
    IF p = SPEDE_DIRECTORY /\ i \in KernelEntries THEN Entry(SPEDE_TABLE + i, KERNEL) ELSE NULL]]

Pool(e, place) ==
  IF e = "6.MemPolicy" THEN <<ENTRIES * PAGE_SIZE, PAGE_STOP>>
  ELSE LET page_address == 10 * PAGE_SIZE + place
       IN  <<page_address, page_address + POOL * PAGE_SIZE>>

\* main() up to kinit(); 5.PageFault's has one process, itself.
Init ==
  /\ ex \in Examples
  /\ cr3 = Entry(SPEDE_DIRECTORY, {})
  /\ \E place \in Places :
       LET s    == [mem |-> FirstMemory, freelist |-> NULL, got |-> 0]
           pool == Pool(ex, place)
           k    == IF ex = "5.PageFault" THEN s ELSE kinit(s, pool[1], pool[2])
       IN  mem = k.mem /\ freelist = k.freelist
  /\ active = IF ex = "5.PageFault" THEN 0 ELSE Nobody
  /\ pagetable = [p \in Proc |-> IF ex = "5.PageFault" /\ p = 0 THEN cr3 ELSE NULL]

NextToCreate == CHOOSE p \in Proc : pagetable[p] = NULL /\ \A q \in Proc : q < p => pagetable[q] # NULL

\* create_processes of 6.MemPolicy.
init_proc ==
  /\ ex = "6.MemPolicy" /\ active = Nobody
  /\ \E p \in Proc : pagetable[p] = NULL
  /\ LET s == MemPolicy_setup_pagetable(State)
     IN  Becomes(s) /\ pagetable' = [pagetable EXCEPT ![NextToCreate] = Entry(s.got, {})]
  /\ UNCHANGED <<ex, active, cr3>>

NewKernelProcHandler ==
  /\ ex = "8.UserProcess" /\ pagetable[0] = NULL
  /\ pagetable' = [pagetable EXCEPT ![0] = cr3]
  /\ UNCHANGED <<ex, mem, freelist, active, cr3>>

NewUserProcHandler ==
  /\ ex = "8.UserProcess" /\ pagetable[0] # NULL /\ pagetable[1] = NULL
  /\ LET s == UserProcess_setup_pagetable(State)
     IN  Becomes(s) /\ pagetable' = [pagetable EXCEPT ![1] = Entry(s.got, {})]
  /\ UNCHANGED <<ex, active, cr3>>

Created == \A p \in Proc : pagetable[p] # NULL

\* main() of 8.UserProcess loads the first process.
Start ==
  /\ ex = "8.UserProcess" /\ active = Nobody /\ Created
  /\ active' = 0
  /\ UNCHANGED <<ex, mem, freelist, pagetable, cr3>>

NextActive == IF active = 0 THEN 1 ELSE 0

\* enable_page_table and set_cr3.
Load(p) == pagetable[p]

\* The timer's interrupt; 6.MemPolicy starts its first process with it.
context_switch ==
  /\ ex # "5.PageFault" /\ Created
  /\ ex = "8.UserProcess" => active # Nobody
  /\ active' = NextActive
  /\ cr3' = Load(NextActive)
  /\ UNCHANGED <<ex, mem, freelist, pagetable>>

\* The active process stores to an address that is mapped.
Store(va, v) ==
  /\ active # Nobody /\ va \in Used(active)
  /\ LET to == Translated(mem, cr3, va, Needed(active))
     IN  to # Nobody /\ mem' = [mem EXCEPT ![to][0] = Data(v)]
  /\ UNCHANGED <<ex, freelist, pagetable, active, cr3>>

\* It stores to one that is not.  The store is tried again after the handler.
Fault(va) ==
  /\ active # Nobody /\ va \in Used(active) /\ ex # "8.UserProcess"
  /\ Translated(mem, cr3, va, Needed(active)) = Nobody
  /\ Becomes(IF ex = "5.PageFault" THEN PageFaultHandler(State, va)
             ELSE MemPolicy_page_fault_handler(State, va))
  /\ cr3' = Load(active)
  /\ UNCHANGED <<ex, pagetable, active>>

Addresses == {X, STACK} \cup Others

Next ==
  \/ init_proc
  \/ NewKernelProcHandler
  \/ NewUserProcHandler
  \/ Start
  \/ context_switch
  \/ \E va \in Addresses : Fault(va) \/ \E v \in Value : Store(va, v)

Spec == Init /\ [][Next]_vars

------------------------------------------------------------------------------
(* Properties *)

\* The words that following the free list meets.
Link[k \in 0 .. 2 * ENTRIES] ==
  IF k = 0 THEN freelist
  ELSE LET last == Link[k - 1] IN IF last = NULL THEN NULL ELSE mem[PageOf(last)][0]

OnList == {k \in 0 .. 2 * ENTRIES : Link[k] # NULL}
Free == {PageOf(Link[k]) : k \in OnList}

PoolPages ==
  IF ex = "5.PageFault" THEN {}
  ELSE IF ex = "6.MemPolicy" THEN ENTRIES .. 2 * ENTRIES - 1 ELSE 10 .. 10 + POOL - 1

\* The directory entries that are a process's own, and what they lead to.
OwnSlots(p) ==
  {i \in Slots : FlagsOf(mem[PageOf(pagetable[p])][i]) # {}
                   /\ (ex = "8.UserProcess" => PAGE_USER \in FlagsOf(mem[PageOf(pagetable[p])][i]))}
TablesOf(p) == {PageOf(mem[PageOf(pagetable[p])][i]) : i \in OwnSlots(p)}
UserMappings(p) ==
  {va \in OwnSlots(p) \X Slots : Translated(mem, pagetable[p], va, USER) # Nobody}
UserPages(p) == {Translated(mem, pagetable[p], va, USER) : va \in UserMappings(p)}

HasSpace(p) == pagetable[p] # NULL /\ (ex = "8.UserProcess" => p = 1)
PagesOf(p) ==
  IF HasSpace(p) THEN {PageOf(pagetable[p])} \cup TablesOf(p) \cup UserPages(p) ELSE {}

\* Every page of the pool is on the free list or has one purpose in one address space,
\* the directory, a table, or the page of one address; none is lost but the one that
\* page_address loses when it is aligned.
PagesApart ==
  ex # "5.PageFault" =>
    /\ \A j, k \in OnList : PageOf(Link[j]) = PageOf(Link[k]) => j = k
    /\ PagesOf(0) \cap PagesOf(1) = {}
    /\ Free \cap (PagesOf(0) \cup PagesOf(1)) = {}
    /\ \A p \in Proc : HasSpace(p) =>
         Cardinality(PagesOf(p)) = 1 + Cardinality(OwnSlots(p)) + Cardinality(UserMappings(p))
    /\ LET all == Free \cup PagesOf(0) \cup PagesOf(1)
       IN  all \subseteq PoolPages /\ Cardinality(PoolPages \ all) <= 1

\* Whatever directory is loaded, an interrupt finds the kernel: what was mapped before is
\* mapped to the same place and closed to user mode.
KernelStaysMapped ==
  \A p \in Proc : pagetable[p] # NULL =>
    LET d == PageOf(pagetable[p]) IN
    IF ex = "6.MemPolicy"
    THEN \A q \in Page :
           LET va == <<q \div ENTRIES, q % ENTRIES>>
           IN  /\ Translated(mem, pagetable[p], va, KERNEL) = q
               /\ Translated(mem, pagetable[p], va, USER) = Nobody
    ELSE \A i \in KernelEntries : mem[d][i] = FirstMemory[SPEDE_DIRECTORY][i]

\* What a process finds at an address, or what it will when the page is mapped.
First(va) == IF va = CODE_START THEN CODE ELSE NULL

Kept(p, va) ==
  LET at == IF pagetable[p] = NULL THEN Nobody
            ELSE Translated(mem, IF p = active THEN cr3 ELSE pagetable[p], va, Needed(p))
  IN  IF at = Nobody THEN First(va) ELSE mem[at][0]

P == INSTANCE PrivateMemory WITH
       Process <- Proc, Address <- Addresses \cup {CODE_START}, Value <- {Data(v) : v \in Value},
       Given <- [p \in Proc |-> [a \in Addresses \cup {CODE_START} |-> First(a)]],
       memory <- [p \in Proc |-> [a \in Addresses \cup {CODE_START} |-> Kept(p, a)]]

\* Every process has a memory of its own behind its addresses, page faults, switches and
\* the other process's stores notwithstanding: zero at first, then what it stored.
ImplementsPrivateMemory == P!Spec
=============================================================================
