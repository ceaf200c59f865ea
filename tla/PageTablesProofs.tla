---------------------------- MODULE PageTablesProofs ----------------------------
(***************************************************************************)
(* The page allocator, the page tables and the page faults of              *)
(* PageTables.tla, for pages and pools of any size and any addresses: every *)
(* page has one use in one address space, the kernel is mapped in every    *)
(* directory, and processes have memories of their own.                    *)
(*                                                                         *)
(* Nothing is freed after kinit(), so the free pages are always the lowest *)
(* of the pool, and the list goes through them downwards.  What each other *)
(* page is used for is a function from pages to uses: two pages with       *)
(* different uses are different pages.                                     *)
(***************************************************************************)
EXTENDS PageTables, IntervalInduction, FiniteSetTheorems

\* The addresses that processes of 6.MemPolicy store to.
Demand == {X} \cup Others

\* No two of them are behind one entry of the directory: then the handler takes no entry
\* that is present for a table's address.
OwnEntries == \A a, b \in Demand : a[1] = b[1] => a = b

\* There are pages for both processes: three to begin with and two for an address.
EnoughPages == 6 + 4 * Cardinality(Demand) <= ENTRIES

-----------------------------------------------------------------------------
(***************************************************************************)
(* Words.                                                                  *)
(***************************************************************************)
Word ==
  ({"fill"} \X {0, 1, 5}) \cup ({"data"} \X Value) \cup {CODE} \cup ({"page"} \X Page \X SUBSET USER)

Memory == [Page -> [Slots -> Word]]

LEMMA Sizes ==
  /\ ENTRIES \in Nat /\ ENTRIES >= 20 /\ POOL \in 6 .. ENTRIES
  /\ ENTRIES \div 4 \in Nat /\ 4 * (ENTRIES \div 4) = ENTRIES
  /\ ENTRIES \div 2 \in Nat /\ 2 * (ENTRIES \div 2) = ENTRIES
  /\ Slots = 0 .. ENTRIES - 1 /\ Page = 0 .. 2 * ENTRIES - 1
  BY PageTablesAssumption DEF Slots, Page

LEMMA WordFacts ==
  /\ \A q \in Page, f \in SUBSET USER :
       /\ Entry(q, f) \in Word /\ PageOf(Entry(q, f)) = q /\ FlagsOf(Entry(q, f)) = f
       /\ Entry(q, f) = NULL <=> q = 0 /\ f = {}
  /\ NULL \in Word /\ PageOf(NULL) = 0 /\ FlagsOf(NULL) = {}
  /\ Fill(1) \in Word /\ Fill(5) \in Word /\ CODE \in Word
  /\ \A v \in Value : Data(v) \in Word
  /\ \A w \in Word : PageOf(w) \in Page /\ FlagsOf(w) \in SUBSET USER
<1>1. 0 \in Page
  BY Sizes
<1>2. \A w \in Word : PageOf(w) \in Page /\ FlagsOf(w) \in SUBSET USER
  BY <1>1 DEF Word, PageOf, FlagsOf, CODE
<1>3. NULL \in Word /\ PageOf(NULL) = 0 /\ FlagsOf(NULL) = {}
  BY DEF Word, PageOf, FlagsOf, NULL, Fill
<1>4. Fill(1) \in Word /\ Fill(5) \in Word /\ CODE \in Word /\ \A v \in Value : Data(v) \in Word
  BY DEF Word, Fill, Data
<1>5. ASSUME NEW q \in Page, NEW f \in SUBSET USER
      PROVE  /\ Entry(q, f) \in Word /\ PageOf(Entry(q, f)) = q /\ FlagsOf(Entry(q, f)) = f
             /\ Entry(q, f) = NULL <=> q = 0 /\ f = {}
  <2>1. CASE q = 0 /\ f = {}
    BY <1>3, <2>1 DEF Entry
  <2>2. CASE ~(q = 0 /\ f = {})
    <3>1. PICK w : w = <<"page", q, f>>
      OBVIOUS
    <3>2. Entry(q, f) = w
      BY <2>2, <3>1 DEF Entry
    <3>3. w[1] = "page" /\ w[2] = q /\ w[3] = f
      BY <3>1
    <3>4. NULL[1] = "fill"
      BY DEF NULL, Fill
    <3>5. w \in Word
      BY <3>1 DEF Word
    <3>6. w # NULL
      BY <3>3, <3>4
    <3>7. QED  BY <2>2, <3>2, <3>3, <3>5, <3>6 DEF PageOf, FlagsOf
  <2>3. QED  BY <2>1, <2>2
<1>6. QED  BY <1>2, <1>3, <1>4, <1>5

LEMMA FlagFacts ==
  /\ {} \in SUBSET USER /\ KERNEL \in SUBSET USER /\ USER \in SUBSET USER
  /\ KERNEL # {} /\ USER # {} /\ ~(USER \subseteq KERNEL) /\ PAGE_USER \notin KERNEL /\ PAGE_USER \in USER
  BY DEF KERNEL, USER, PAGE_PRESENT, PAGE_WRITE, PAGE_USER

LEMMA AddressFacts ==
  /\ X \in Slots \X Slots /\ STACK \in Slots \X Slots /\ CODE_START \in Slots \X Slots
  /\ X[1] = ENTRIES \div 4 /\ STACK[1] = ENTRIES \div 2 - 1 /\ CODE_START[1] = ENTRIES \div 2
  /\ X[1] > 4 /\ X[1] < STACK[1] /\ STACK[1] < CODE_START[1] /\ CODE_START[1] < ENTRIES
  /\ X[2] = 0 /\ STACK[2] = ENTRIES - 1 /\ CODE_START[2] = 0
  /\ CODE_START \notin Demand
  /\ Demand \subseteq Slots \X Slots /\ \A va \in Demand : va[1] >= 2
  /\ IsFiniteSet(Demand)
<1>1. PICK quarter \in Nat, half \in Nat :
        quarter = ENTRIES \div 4 /\ half = ENTRIES \div 2 /\ 4 * quarter = ENTRIES /\ 2 * half = ENTRIES
  BY Sizes
<1>2. quarter > 4 /\ quarter < half - 1 /\ half < ENTRIES
  BY <1>1, Sizes
<1>3. X = <<quarter, 0>> /\ STACK = <<half - 1, ENTRIES - 1>> /\ CODE_START = <<half, 0>>
  BY <1>1 DEF X, STACK, CODE_START
<1>4. /\ X \in Slots \X Slots /\ STACK \in Slots \X Slots /\ CODE_START \in Slots \X Slots
      /\ X[1] = quarter /\ STACK[1] = half - 1 /\ CODE_START[1] = half
      /\ X[2] = 0 /\ STACK[2] = ENTRIES - 1 /\ CODE_START[2] = 0
  BY <1>2, <1>3, Sizes
<1>5. Others \subseteq (2 .. ENTRIES - 1) \X Slots /\ CODE_START \notin Others
  BY PageTablesAssumption DEF Slots, CODE_START
<1>6. X # CODE_START
  BY <1>2, <1>4
<1>7. Demand \subseteq Slots \X Slots /\ \A va \in Demand : va[1] >= 2
  <2>1. \A va \in Others : va \in Slots \X Slots /\ va[1] >= 2
    BY <1>5, Sizes
  <2>2. QED  BY <1>2, <1>4, <2>1 DEF Demand
<1>8. IsFiniteSet(Demand)
  <2>1. IsFiniteSet(Slots)
    BY Sizes, FS_Interval
  <2>2. IsFiniteSet(Slots \X Slots)
    BY <2>1, FS_Product
  <2>3. Demand \in SUBSET (Slots \X Slots)
    BY <1>7
  <2>4. QED  BY <2>2, <2>3, FS_Subset
<1>9. QED  BY <1>1, <1>2, <1>4, <1>5, <1>6, <1>7, <1>8 DEF Demand

-----------------------------------------------------------------------------
(***************************************************************************)
(* The allocator.  The free pages are lo to hi.                            *)
(***************************************************************************)
LinkTo(lo, q) == IF q < lo THEN NULL ELSE Entry(q, {})

FreeTo(m, list, lo, hi) ==
  /\ lo \in Page /\ lo > 0 /\ hi \in lo - 1 .. 2 * ENTRIES - 1
  /\ list = LinkTo(lo, hi)
  /\ \A q \in lo .. hi : m[q][0] = LinkTo(lo, q - 1)

ZeroPage == [i \in Slots |-> NULL]

\* A page's words, or one word, change.
Paged(m, q, words) == [m EXCEPT ![q] = words]

Worded(m, q, i, word) == [m EXCEPT ![q][i] = word]

SameBut(m, n, Q) == \A q \in Page \ Q : n[q] = m[q]

LEMMA PagedIs ==
  ASSUME NEW m \in Memory, NEW q \in Page, NEW words \in [Slots -> Word], NEW n, n = Paged(m, q, words)
  PROVE  n \in Memory /\ n[q] = words /\ SameBut(m, n, {q})
  BY DEF Memory, Paged, SameBut

LEMMA WordedIs ==
  ASSUME NEW m \in Memory, NEW q \in Page, NEW i \in Slots, NEW word \in Word, NEW n, n = Worded(m, q, i, word)
  PROVE  /\ n \in Memory /\ n[q] = [k \in Slots |-> IF k = i THEN word ELSE m[q][k]]
         /\ SameBut(m, n, {q})
<1> DEFINE words == [k \in Slots |-> IF k = i THEN word ELSE m[q][k]]
<1>1. m[q] \in [Slots -> Word] /\ words \in [Slots -> Word]
  BY DEF Memory
<1>2. words = [m[q] EXCEPT ![i] = word]
  BY <1>1
<1>3. n = Paged(m, q, words)
  BY <1>1, <1>2 DEF Worded, Paged, Memory
<1> HIDE DEF words
<1>4. n \in Memory /\ n[q] = words /\ SameBut(m, n, {q})
  BY <1>1, <1>3, PagedIs
<1>5. QED  BY <1>4 DEF words

LEMMA ZeroPageTyped == ZeroPage \in [Slots -> Word] /\ \A i \in Slots : ZeroPage[i] = NULL
  BY WordFacts DEF ZeroPage

\* The list goes through free pages only.
LEMMA FreeStays ==
  ASSUME NEW m, NEW list, NEW lo, NEW hi, FreeTo(m, list, lo, hi), NEW n, NEW Q, SameBut(m, n, Q),
         \A q \in Q : q > hi
  PROVE  FreeTo(n, list, lo, hi)
<1>1. lo \in Nat /\ hi \in Int /\ hi <= 2 * ENTRIES - 1
  BY Sizes DEF FreeTo
<1>2. \A q \in lo .. hi : q \in Page \ Q
  BY <1>1, Sizes
<1>3. \A q \in lo .. hi : n[q] = m[q]
  BY <1>2 DEF SameBut
<1>4. QED  BY <1>3 DEF FreeTo

LEMMA KpagemakeIs ==
  ASSUME NEW s, s.mem \in Memory, NEW lo, NEW hi, FreeTo(s.mem, s.freelist, lo, hi), lo <= hi,
         NEW t, t = kpagemake(s), NEW h, h = hi - 1
  PROVE  /\ hi \in Page /\ t = [mem |-> t.mem, freelist |-> t.freelist, got |-> hi]
         /\ t.mem \in Memory /\ t.mem[hi] = ZeroPage /\ SameBut(s.mem, t.mem, {hi})
         /\ FreeTo(t.mem, t.freelist, lo, h)
<1>1. lo \in Nat /\ hi \in Nat /\ lo > 0 /\ hi \in Page /\ lo \in Page
  BY Sizes DEF FreeTo
<1>2. s.freelist = Entry(hi, {})
  BY <1>1 DEF FreeTo, LinkTo
<1>3. PageOf(s.freelist) = hi /\ s.freelist # NULL
  BY <1>1, <1>2, WordFacts, FlagFacts
<1>4. s.mem[hi][0] = LinkTo(lo, h)
  BY <1>1 DEF FreeTo
<1>5. PICK k : k = kalloc(s)
  OBVIOUS
<1>6. k = [mem |-> memset(s.mem, hi, 5), freelist |-> LinkTo(lo, h), got |-> hi]
  BY <1>3, <1>4, <1>5 DEF kalloc
<1>7. t = [k EXCEPT !.mem = memset(k.mem, hi, 0)]
  BY <1>5, <1>6 DEF kpagemake
<1>8. t.got = hi /\ t.freelist = LinkTo(lo, h) /\ t.mem = memset(memset(s.mem, hi, 5), hi, 0)
  BY <1>6, <1>7
<1>9. t.mem = Paged(s.mem, hi, ZeroPage)
  BY <1>1, <1>8 DEF memset, ZeroPage, NULL, Memory, Paged
<1>10. t.mem \in Memory /\ t.mem[hi] = ZeroPage /\ SameBut(s.mem, t.mem, {hi})
  BY <1>1, <1>9, PagedIs, ZeroPageTyped
<1>11. FreeTo(s.mem, LinkTo(lo, h), lo, h)
  BY <1>1, Sizes DEF FreeTo
<1>12. FreeTo(t.mem, t.freelist, lo, h)
  BY <1>1, <1>8, <1>10, <1>11, FreeStays
<1>13. t = [mem |-> t.mem, freelist |-> t.freelist, got |-> hi]
  BY <1>6, <1>7
<1>14. QED  BY <1>1, <1>10, <1>12, <1>13

\* Two tables that map memory onto itself: this is table k.
IdentityTable(k) == [i \in Slots |-> Entry(i + k * ENTRIES, KERNEL)]

LEMMA IdentityTableTyped ==
  ASSUME NEW k \in {0, 1}
  PROVE  /\ IdentityTable(k) \in [Slots -> Word]
         /\ \A i \in Slots : i + k * ENTRIES \in Page /\ IdentityTable(k)[i] = Entry(i + k * ENTRIES, KERNEL)
<1>1. \A i \in Slots : i + k * ENTRIES \in Page
  BY Sizes
<1>2. \A i \in Slots : Entry(i + k * ENTRIES, KERNEL) \in Word
  BY <1>1, WordFacts, FlagFacts
<1>3. QED  BY <1>1, <1>2 DEF IdentityTable

LEMMA FreeToSizes ==
  ASSUME NEW m, NEW list, NEW lo, NEW hi, FreeTo(m, list, lo, hi)
  PROVE  /\ lo \in Nat /\ lo > 0 /\ hi \in Nat /\ hi < 2 * ENTRIES
         /\ lo <= hi => hi \in Page
  BY Sizes DEF FreeTo

\* The number before hi.
Below(h, hi) == h = hi - 1

Cell(m, list, got) == [mem |-> m, freelist |-> list, got |-> got]

\* The allocator and the memory of s, and what taking the page q makes of them.
Allocates(s, lo, hi) == s.mem \in Memory /\ FreeTo(s.mem, s.freelist, lo, hi)

Takes(s, t, q) ==
  /\ t = Cell(t.mem, t.freelist, q) /\ t.got = q
  /\ t.mem[q] = ZeroPage /\ SameBut(s.mem, t.mem, {q})

LEMMA KpagemakeTakes ==
  ASSUME NEW s, NEW lo, NEW hi, Allocates(s, lo, hi), lo <= hi,
         NEW t, t = kpagemake(s), NEW h, Below(h, hi)
  PROVE  Takes(s, t, hi) /\ Allocates(t, lo, h)
<1>1. PICK c : c = Cell(t.mem, t.freelist, hi)
  OBVIOUS
<1>2. c = [mem |-> t.mem, freelist |-> t.freelist, got |-> hi] /\ c.got = hi
  BY <1>1 DEF Cell
<1>3. /\ t = [mem |-> t.mem, freelist |-> t.freelist, got |-> hi]
      /\ t.mem \in Memory /\ t.mem[hi] = ZeroPage /\ SameBut(s.mem, t.mem, {hi})
      /\ FreeTo(t.mem, t.freelist, lo, h)
  BY KpagemakeIs DEF Below, Allocates
<1>4. t = c
  BY <1>2, <1>3
<1>5. QED  BY <1>1, <1>2, <1>3, <1>4 DEF Takes, Allocates

LEMMA SetIs ==
  ASSUME NEW m, NEW list, NEW got, NEW q, NEW i, NEW word
  PROVE  Set(Cell(m, list, got), q, i, word) = Cell(Worded(m, q, i, word), list, got)
  BY DEF Set, Cell, Worded

\* A page with one word.
OneWord(i, word) == [k \in Slots |-> IF k = i THEN word ELSE NULL]

LEMMA OneWordIs ==
  ASSUME NEW m \in Memory, NEW q \in Page, m[q] = ZeroPage, NEW i \in Slots, NEW word \in Word,
         NEW n, n = Worded(m, q, i, word)
  PROVE  n \in Memory /\ n[q] = OneWord(i, word) /\ SameBut(m, n, {q})
  BY WordedIs, ZeroPageTyped DEF OneWord

WithWord(words, k, word) == [j \in Slots |-> IF j = k THEN word ELSE words[j]]

LEMMA WithWordIs ==
  ASSUME NEW m \in Memory, NEW q \in Page, NEW i \in Slots, NEW word \in Word, NEW n, n = Worded(m, q, i, word)
  PROVE  n \in Memory /\ n[q] = WithWord(m[q], i, word) /\ SameBut(m, n, {q})
  BY WordedIs DEF WithWord

\* A table and a page for the word k of the directory d, whose table has the word i.
MapOne(last, table, d, k, i) ==
  Set(Set(last, table.got, i, Entry(last.got, USER)), d, k, Entry(table.got, USER))

Maps(s, t, d, k, i, q, r) ==
  /\ t = Cell(t.mem, t.freelist, r) /\ SameBut(s.mem, t.mem, {d, q, r})
  /\ t.mem[q] = OneWord(i, Entry(r, USER)) /\ t.mem[r] = ZeroPage
  /\ t.mem[d] = WithWord(s.mem[d], k, Entry(q, USER))

LEMMA MapOneMaps ==
  ASSUME NEW s, NEW lo, NEW hi, Allocates(s, lo, hi), NEW a, Below(a, hi), lo <= a,
         NEW c, Below(c, a), NEW d \in Page, hi < d, NEW k \in Slots, NEW i \in Slots,
         NEW table, table = kpagemake(s), NEW last, last = kpagemake(table),
         NEW t, t = MapOne(last, table, d, k, i)
  PROVE  Maps(s, t, d, k, i, hi, a) /\ Allocates(t, lo, c) /\ last.got = a
<1>1. /\ lo \in Nat /\ hi \in Nat /\ a \in Nat /\ lo <= hi /\ hi \in Page /\ a \in Page /\ hi # a
      /\ d # hi /\ d # a /\ c < a /\ c < hi /\ c < d
  BY FreeToSizes, Sizes DEF Below, Allocates
<1>2. Entry(hi, USER) \in Word /\ Entry(a, USER) \in Word
  BY <1>1, WordFacts, FlagFacts
<1>3. Takes(s, table, hi) /\ Allocates(table, lo, a)
  BY <1>1, KpagemakeTakes
<1>4. Takes(table, last, a) /\ Allocates(last, lo, c)
  BY <1>1, <1>3, KpagemakeTakes
<1>5. PICK m : m = Worded(last.mem, hi, i, Entry(a, USER))
  OBVIOUS
<1>6. PICK n : n = Worded(m, d, k, Entry(hi, USER))
  OBVIOUS
<1>7. t = Cell(n, last.freelist, a) /\ last.got = a
  <2>1. table.got = hi /\ last.got = a /\ last = Cell(last.mem, last.freelist, a)
    BY <1>3, <1>4 DEF Takes
  <2>2. t = Set(Set(last, hi, i, Entry(a, USER)), d, k, Entry(hi, USER))
    BY <2>1 DEF MapOne
  <2>3. Set(Cell(last.mem, last.freelist, a), hi, i, Entry(a, USER)) = Cell(m, last.freelist, a)
    BY <1>5, SetIs
  <2>4. t = Set(Cell(m, last.freelist, a), d, k, Entry(hi, USER))
    BY <2>1, <2>2, <2>3
  <2>5. QED  BY <1>6, <2>1, <2>4, SetIs
<1>8. last.mem[hi] = ZeroPage /\ last.mem[d] = s.mem[d] /\ last.mem[a] = ZeroPage /\ last.mem \in Memory
  BY <1>1, <1>3, <1>4 DEF SameBut, Takes, Allocates
<1>9. m \in Memory /\ m[hi] = OneWord(i, Entry(a, USER)) /\ SameBut(last.mem, m, {hi})
  BY <1>1, <1>2, <1>5, <1>8, OneWordIs
<1>10. n \in Memory /\ n[d] = WithWord(m[d], k, Entry(hi, USER)) /\ SameBut(m, n, {d})
  BY <1>1, <1>2, <1>6, <1>9, WithWordIs
<1>11. m[d] = s.mem[d] /\ n[hi] = m[hi] /\ n[a] = last.mem[a]
  BY <1>1, <1>8, <1>9, <1>10 DEF SameBut
<1>12. SameBut(last.mem, n, {d, hi}) /\ SameBut(s.mem, n, {d, hi, a})
  BY <1>3, <1>4, <1>9, <1>10 DEF SameBut, Takes
<1>13. FreeTo(n, last.freelist, lo, c)
  <2>1. FreeTo(last.mem, last.freelist, lo, c)
    BY <1>4 DEF Allocates
  <2>2. \A q \in {d, hi} : q > c
    BY <1>1
  <2>3. QED  BY <1>12, <2>1, <2>2, FreeStays
<1>14. t.mem = n /\ t.freelist = last.freelist
  BY <1>7 DEF Cell
<1>15. QED  BY <1>7, <1>8, <1>9, <1>10, <1>11, <1>12, <1>13, <1>14 DEF Maps, Allocates


\* The directory with what it inherits.
KernelPart(m) == [i \in Slots |-> IF i \in KernelEntries THEN m[SPEDE_DIRECTORY][i] ELSE NULL]

KernelOf(directory) ==
  [directory EXCEPT !.mem[directory.got] =
     [i \in Slots |-> IF i \in Inherited THEN directory.mem[SPEDE_DIRECTORY][i] ELSE @[i]]]

LEMMA KernelOfIs ==
  ASSUME NEW m \in Memory, NEW list, NEW d \in Page
  PROVE  KernelOf(Cell(m, list, d)) =
           Cell(Paged(m, d, [i \in Slots |-> IF i \in Inherited THEN m[SPEDE_DIRECTORY][i] ELSE m[d][i]]), list, d)
<1>1. PICK c : c = Cell(m, list, d)
  OBVIOUS
<1>2. c = [mem |-> m, freelist |-> list, got |-> d]
  BY <1>1 DEF Cell
<1>3. KernelOf(c) = [mem |-> [m EXCEPT ![d] = [i \in Slots |-> IF i \in Inherited THEN m[SPEDE_DIRECTORY][i] ELSE @[i]]],
                     freelist |-> list, got |-> d]
  BY <1>2 DEF KernelOf
<1>4. [m EXCEPT ![d] = [i \in Slots |-> IF i \in Inherited THEN m[SPEDE_DIRECTORY][i] ELSE @[i]]]
        = Paged(m, d, [i \in Slots |-> IF i \in Inherited THEN m[SPEDE_DIRECTORY][i] ELSE m[d][i]])
  BY DEF Paged, Memory
<1>5. QED  BY <1>1, <1>3, <1>4 DEF Cell

\* There are n free pages.
Room(lo, hi, n) == lo + n - 1 <= hi

\* The pool is above the kernel's pages.
AboveTables(lo) == lo > 1

\* What the page q holds.
Holds(m, q, words) == m[q] = words

LEMMA KernelInherited ==
  ASSUME NEW s, NEW lo, NEW hi, Allocates(s, lo, hi), AboveTables(lo), Room(lo, hi, 1), NEW a, Below(a, hi),
         NEW directory, directory = kpagemake(s), NEW kernel, kernel = KernelOf(directory)
  PROVE  /\ directory.got = hi /\ Allocates(kernel, lo, a)
         /\ SameBut(s.mem, kernel.mem, {hi}) /\ Holds(kernel.mem, hi, KernelPart(s.mem))
<1>1. /\ lo \in Nat /\ hi \in Page /\ hi \in Nat /\ a < hi
      /\ SPEDE_DIRECTORY \in Page /\ SPEDE_DIRECTORY # hi /\ lo <= hi
  BY FreeToSizes, Sizes DEF SPEDE_DIRECTORY, Below, Allocates, AboveTables, Room
<1>2. Takes(s, directory, hi) /\ Allocates(directory, lo, a)
  BY <1>1, KpagemakeTakes
<1>3. PICK first : first = KernelPart(s.mem)
  OBVIOUS
<1>4. first \in [Slots -> Word]
  <2>1. s.mem \in Memory
    BY DEF Allocates
  <2>2. \A i \in Slots : s.mem[SPEDE_DIRECTORY][i] \in Word
    BY <1>1, <2>1 DEF Memory
  <2>3. NULL \in Word
    BY WordFacts
  <2>4. QED  BY <1>3, <2>2, <2>3 DEF KernelPart
<1>5. directory.mem[SPEDE_DIRECTORY] = s.mem[SPEDE_DIRECTORY] /\ directory.mem[hi] = ZeroPage
  BY <1>1, <1>2 DEF SameBut, Takes
<1>6. [i \in Slots |-> IF i \in Inherited THEN directory.mem[SPEDE_DIRECTORY][i] ELSE directory.mem[hi][i]] = first
  BY <1>3, <1>5, ZeroPageTyped DEF Inherited, KernelEntries, KernelPart
<1>7. kernel.mem = Paged(directory.mem, hi, first) /\ kernel.freelist = directory.freelist
  <2>1. directory = Cell(directory.mem, directory.freelist, hi) /\ directory.mem \in Memory
    BY <1>2 DEF Takes, Allocates
  <2>2. kernel = Cell(Paged(directory.mem, hi, first), directory.freelist, hi)
    BY <1>1, <1>6, <2>1, KernelOfIs
  <2>3. QED  BY <2>2 DEF Cell
<1>8. directory.mem \in Memory /\ FreeTo(directory.mem, directory.freelist, lo, a) /\ directory.got = hi
  BY <1>2 DEF Allocates, Takes
<1>9. kernel.mem \in Memory /\ kernel.mem[hi] = first /\ SameBut(directory.mem, kernel.mem, {hi})
  BY <1>1, <1>4, <1>7, <1>8, PagedIs
<1>10. SameBut(s.mem, kernel.mem, {hi})
  BY <1>2, <1>9 DEF SameBut, Takes
<1>11. FreeTo(kernel.mem, directory.freelist, lo, a)
  BY <1>1, <1>8, <1>9, FreeStays
<1>12. QED  BY <1>3, <1>7, <1>8, <1>9, <1>10, <1>11 DEF Allocates, Holds

\* A page on a process's own, for the first word that it gets.
Last(linked, e, word, d) == [linked EXCEPT !.mem[e][0] = word, !.got = d]

LEMMA LastIs ==
  ASSUME NEW m, NEW list, NEW e, NEW word, NEW d
  PROVE  Last(Cell(m, list, e), e, word, d) = Cell(Worded(m, e, 0, word), list, d)
  <1>1. PICK c : c = [mem |-> m, freelist |-> list, got |-> e]
  OBVIOUS
<1>2. PICK r : r = [c EXCEPT !.mem[e][0] = word, !.got = d]
  OBVIOUS
<1>3. r.mem = [m EXCEPT ![e][0] = word] /\ r.freelist = list /\ r.got = d
  BY <1>1, <1>2
<1>4. r = [mem |-> r.mem, freelist |-> r.freelist, got |-> r.got]
  BY <1>1, <1>2
<1>5. Last(Cell(m, list, e), e, word, d) = r
  BY <1>1, <1>2 DEF Last, Cell
<1>6. QED  BY <1>3, <1>4, <1>5 DEF Cell, Worded

\* hi, a to e are the pages that the setup takes, in this order.
LEMMA UserProcessSetup ==
  ASSUME NEW s, NEW lo, NEW hi, Allocates(s, lo, hi), AboveTables(lo), Room(lo, hi, 5),
         NEW a, Below(a, hi), NEW b, Below(b, a), NEW c, Below(c, b), NEW e, Below(e, c), NEW f, Below(f, e),
         NEW t, t = UserProcess_setup_pagetable(s)
  PROVE  /\ t.got = hi /\ Allocates(t, lo, f) /\ SameBut(s.mem, t.mem, {hi, a, b, c, e})
         /\ t.mem[hi] = WithWord(WithWord(KernelPart(s.mem), STACK[1], Entry(a, USER)),
                                 CODE_START[1], Entry(c, USER))
         /\ t.mem[a] = OneWord(STACK[2], Entry(b, USER)) /\ t.mem[b] = ZeroPage
         /\ t.mem[c] = OneWord(CODE_START[2], Entry(e, USER)) /\ t.mem[e] = OneWord(0, CODE)
<1>1. lo \in Nat /\ hi \in Nat /\ hi \in Page /\ lo <= hi
  BY FreeToSizes, Sizes DEF Allocates, Room
<1>2. /\ lo <= a /\ lo <= b /\ lo <= c /\ lo <= e /\ e < hi /\ c < hi /\ a < hi /\ b < hi /\ f < e /\ f < hi /\ f < c
      /\ e # c /\ e # b /\ e # a /\ e # hi /\ c # b /\ c # a /\ c # hi /\ b # a /\ b # hi /\ a # hi
  BY <1>1 DEF Below, Room
<1>3. a \in Page /\ b \in Page /\ c \in Page /\ e \in Page
  BY <1>1, Sizes DEF Below, Room
<1>4. /\ STACK[1] \in Slots /\ STACK[2] \in Slots /\ CODE_START[1] \in Slots /\ CODE_START[2] \in Slots
      /\ 0 \in Slots
  BY AddressFacts, Sizes
<1>5. PICK directory, kernel : directory = kpagemake(s) /\ kernel = KernelOf(directory)
  OBVIOUS
<1>6. /\ directory.got = hi /\ Allocates(kernel, lo, a)
      /\ SameBut(s.mem, kernel.mem, {hi}) /\ Holds(kernel.mem, hi, KernelPart(s.mem))
  <2>1. Room(lo, hi, 1)
    BY <1>1 DEF Room
  <2>2. QED  BY <1>5, <2>1, KernelInherited
<1>7. PICK table1, stack, mapped :
        /\ table1 = kpagemake(kernel) /\ stack = kpagemake(table1)
        /\ mapped = MapOne(stack, table1, hi, STACK[1], STACK[2])
  OBVIOUS
<1>8. Maps(kernel, mapped, hi, STACK[1], STACK[2], a, b) /\ Allocates(mapped, lo, c)
  BY <1>1, <1>2, <1>4, <1>6, <1>7, MapOneMaps
<1>9. PICK table2, last, linked :
        /\ table2 = kpagemake(mapped) /\ last = kpagemake(table2)
        /\ linked = MapOne(last, table2, hi, CODE_START[1], CODE_START[2])
  OBVIOUS
<1>10. Maps(mapped, linked, hi, CODE_START[1], CODE_START[2], c, e) /\ Allocates(linked, lo, f) /\ last.got = e
  BY <1>1, <1>2, <1>4, <1>8, <1>9, MapOneMaps
<1>11. t = Last(linked, last.got, CODE, directory.got)
  <2>1. /\ mapped = Set(Set(stack, table1.got, STACK[2], Entry(stack.got, USER)),
                        directory.got, STACK[1], Entry(table1.got, USER))
        /\ linked = Set(Set(last, table2.got, CODE_START[2], Entry(last.got, USER)),
                        directory.got, CODE_START[1], Entry(table2.got, USER))
    BY <1>6, <1>7, <1>9 DEF MapOne
  <2>2. QED  BY <1>5, <1>7, <1>9, <2>1 DEF UserProcess_setup_pagetable, KernelOf, Last
<1>12. t.got = hi /\ t.freelist = linked.freelist /\ t.mem = Worded(linked.mem, e, 0, CODE)
  <2>1. linked = Cell(linked.mem, linked.freelist, e)
    BY <1>10 DEF Maps
  <2>2. t = Cell(Worded(linked.mem, e, 0, CODE), linked.freelist, hi)
    BY <1>6, <1>10, <1>11, <2>1, LastIs
  <2>3. QED  BY <2>2 DEF Cell
<1>13. t.mem \in Memory /\ t.mem[e] = OneWord(0, CODE) /\ SameBut(linked.mem, t.mem, {e})
  <2>1. CODE \in Word
    BY WordFacts
  <2>2. linked.mem \in Memory /\ linked.mem[e] = ZeroPage
    BY <1>10 DEF Maps, Allocates
  <2>3. QED  BY <1>3, <1>4, <1>12, <2>1, <2>2, OneWordIs
<1>14. /\ t.mem[hi] = linked.mem[hi] /\ t.mem[a] = mapped.mem[a] /\ t.mem[b] = mapped.mem[b]
       /\ t.mem[c] = linked.mem[c]
  BY <1>1, <1>2, <1>3, <1>10, <1>13 DEF SameBut, Maps
<1>15. /\ t.mem[hi] = WithWord(WithWord(KernelPart(s.mem), STACK[1], Entry(a, USER)), CODE_START[1], Entry(c, USER))
       /\ t.mem[a] = OneWord(STACK[2], Entry(b, USER)) /\ t.mem[b] = ZeroPage
       /\ t.mem[c] = OneWord(CODE_START[2], Entry(e, USER))
  BY <1>6, <1>8, <1>10, <1>14 DEF Maps, Holds
<1>16. SameBut(s.mem, t.mem, {hi, a, b, c, e})
  BY <1>6, <1>8, <1>10, <1>13 DEF SameBut, Maps
<1>17. FreeTo(t.mem, t.freelist, lo, f)
  <2>1. FreeTo(linked.mem, linked.freelist, lo, f)
    BY <1>10 DEF Allocates
  <2>2. \A q \in {e} : q > f
    BY <1>2, <1>1 DEF Below
  <2>3. QED  BY <1>12, <1>13, <2>1, <2>2, FreeStays
<1>18. QED  BY <1>12, <1>13, <1>15, <1>16, <1>17 DEF Allocates

-----------------------------------------------------------------------------
(***************************************************************************)
(* What pages are used for.  A use is a process, a kind and the entry of   *)
(* the directory that leads to the page.                                   *)
(***************************************************************************)
DirectoryUse(p) == <<p, "directory", 0>>
TableUse(p, i) == <<p, "table", i>>
PageUse(p, i) == <<p, "page", i>>
Nothing == <<Nobody, "nothing", 0>>

LEMMA UseFacts ==
  /\ \A p : DirectoryUse(p) # Nothing
  /\ \A p, i : TableUse(p, i) # Nothing /\ PageUse(p, i) # Nothing
  /\ \A p, q : DirectoryUse(p) = DirectoryUse(q) => p = q
  /\ \A p, q, i : DirectoryUse(p) # TableUse(q, i) /\ DirectoryUse(p) # PageUse(q, i)
  /\ \A p, q, i, j : TableUse(p, i) # PageUse(q, j)
  /\ \A p, q, i, j : TableUse(p, i) = TableUse(q, j) => p = q /\ i = j
  /\ \A p, q, i, j : PageUse(p, i) = PageUse(q, j) => p = q /\ i = j
<1>1. \A p : DirectoryUse(p)[1] = p /\ DirectoryUse(p)[2] = "directory"
  BY DEF DirectoryUse
<1>2. \A p, i : TableUse(p, i)[1] = p /\ TableUse(p, i)[2] = "table" /\ TableUse(p, i)[3] = i
  BY DEF TableUse
<1>3. \A p, i : PageUse(p, i)[1] = p /\ PageUse(p, i)[2] = "page" /\ PageUse(p, i)[3] = i
  BY DEF PageUse
<1>4. Nothing[2] = "nothing"
  BY DEF Nothing
<1>5. /\ \A p : DirectoryUse(p) # Nothing
      /\ \A p, i : TableUse(p, i) # Nothing /\ PageUse(p, i) # Nothing
  BY <1>1, <1>2, <1>3, <1>4
<1>6. /\ \A p, q, i : DirectoryUse(p) # TableUse(q, i) /\ DirectoryUse(p) # PageUse(q, i)
      /\ \A p, q, i, j : TableUse(p, i) # PageUse(q, j)
  BY <1>1, <1>2, <1>3
<1>7. \A p, q : DirectoryUse(p) = DirectoryUse(q) => p = q
  BY <1>1
<1>8. \A p, q, i, j : TableUse(p, i) = TableUse(q, j) => p = q /\ i = j
  BY <1>2
<1>9. \A p, q, i, j : PageUse(p, i) = PageUse(q, j) => p = q /\ i = j
  BY <1>3
<1>10. QED  BY <1>5, <1>6, <1>7, <1>8, <1>9

\* The pages after hi, up to last, have the uses W, each a use of its own.
Assigned(use, hi, last, W) ==
  /\ \A q \in Page : hi < q /\ q <= last <=> use[q] # Nothing
  /\ \A q \in Page : use[q] # Nothing => use[q] \in W
  /\ \A w \in W : w # Nothing /\ \E q \in Page : use[q] = w
  /\ \A q, r \in Page : use[q] = use[r] /\ use[q] # Nothing => q = r

\* The page q gets the use w.
For(use, q, w) == [r \in Page |-> IF r = q THEN w ELSE use[r]]

LEMMA AssignedMore ==
  ASSUME NEW use, NEW hi \in Page, NEW last \in Nat, NEW W, Assigned(use, hi, last, W), hi <= last,
         NEW h, Below(h, hi), NEW w, w \notin W, w # Nothing
  PROVE  Assigned(For(use, hi, w), h, last, W \cup {w})
<1>1. hi \in Nat /\ h = hi - 1
  BY Sizes DEF Below
<1>2. Page \subseteq Nat
  BY Sizes
<1>3. use[hi] = Nothing
  BY <1>1 DEF Assigned
<1>4. PICK n : n = For(use, hi, w)
  OBVIOUS
<1>5. n[hi] = w /\ \A q \in Page : q # hi => n[q] = use[q]
  BY <1>4 DEF For
<1>6. \A q \in Page : h < q /\ q <= last <=> n[q] # Nothing
  <2>1. \A q \in Page : q # hi => (h < q <=> hi < q)
    BY <1>1, <1>2
  <2>2. h < hi
    BY <1>1
  <2>3. QED  BY <1>5, <2>1, <2>2 DEF Assigned
<1>7. \A q \in Page : n[q] # Nothing => n[q] \in W \cup {w}
  BY <1>5 DEF Assigned
<1>8. \A x \in W \cup {w} : x # Nothing /\ \E q \in Page : n[q] = x
  BY <1>3, <1>5 DEF Assigned
<1>9. \A q, r \in Page : n[q] = n[r] /\ n[q] # Nothing => q = r
  BY <1>5 DEF Assigned
<1>10. QED  BY <1>4, <1>6, <1>7, <1>8, <1>9 DEF Assigned

\* Pages that have a use keep it.
Extends(use, new) == \A q \in Page : use[q] # Nothing => new[q] = use[q]

LEMMA ForExtends ==
  ASSUME NEW use, NEW hi \in Page, NEW last, NEW W, Assigned(use, hi, last, W), NEW w, NEW old, Extends(old, use)
  PROVE  Extends(old, For(use, hi, w)) /\ For(use, hi, w)[hi] = w
<1>1. ~(hi < hi)
  BY Sizes
<1>2. use[hi] = Nothing
  BY <1>1 DEF Assigned
<1>3. QED  BY <1>2 DEF Extends, For

-----------------------------------------------------------------------------
(***************************************************************************)
(* How many uses there are in an address space.                            *)
(***************************************************************************)
LEMMA SameSize ==
  ASSUME NEW S, IsFiniteSet(S), NEW T, NEW f \in [S -> T],
         \A a, b \in S : f[a] = f[b] => a = b, \A t \in T : \E a \in S : f[a] = t
  PROVE  IsFiniteSet(T) /\ Cardinality(T) = Cardinality(S)
<1>1. f \in Bijection(S, T)
  BY DEF Bijection, Injection, Surjection, IsInjective
<1>2. ExistsBijection(S, T)
  BY <1>1 DEF ExistsBijection
<1>3. QED  BY <1>2, FS_Bijection

LEMMA DisjointSizes ==
  ASSUME NEW S, IsFiniteSet(S), NEW T, IsFiniteSet(T), \A x \in S : x \notin T
  PROVE  IsFiniteSet(S \cup T) /\ Cardinality(S \cup T) = Cardinality(S) + Cardinality(T)
<1>1. S \cap T = {}
  OBVIOUS
<1>2. Cardinality(S \cap T) = 0
  BY <1>1, FS_EmptySet
<1>3. Cardinality(S) \in Nat /\ Cardinality(T) \in Nat
  BY FS_CardinalityType
<1>4. IsFiniteSet(S \cup T) /\ Cardinality(S \cup T) = Cardinality(S) + Cardinality(T) - Cardinality(S \cap T)
  BY FS_Union
<1>5. QED  BY <1>2, <1>3, <1>4

\* The first entries of the directories map what everybody uses.
KernelSlots(e) == IF e = "6.MemPolicy" THEN {0, 1} ELSE KernelEntries

\* The tables of a process that has the pages of the addresses own.
TableSlots(e, own) == (IF e = "6.MemPolicy" THEN {0, 1} ELSE {}) \cup {va[1] : va \in own}

Uses(e, p, own) ==
  {DirectoryUse(p)} \cup {TableUse(p, i) : i \in TableSlots(e, own)} \cup {PageUse(p, va[1]) : va \in own}

\* No two addresses are behind one entry of the directory, or behind the kernel's.
Separate(e, own) ==
  /\ IsFiniteSet(own) /\ own \subseteq Slots \X Slots
  /\ \A a, b \in own : a[1] = b[1] => a = b
  /\ \A a \in own : a[1] \notin KernelSlots(e)

LEMMA TablesCount ==
  ASSUME NEW e, NEW own, Separate(e, own)
  PROVE  /\ IsFiniteSet(TableSlots(e, own)) /\ Cardinality(own) \in Nat
         /\ Cardinality(TableSlots(e, own)) = Cardinality(own) + IF e = "6.MemPolicy" THEN 2 ELSE 0
<1>1. IsFiniteSet(own) /\ Cardinality(own) \in Nat
  BY FS_CardinalityType DEF Separate
<1>2. PICK indices : indices = {va[1] : va \in own}
  OBVIOUS
<1>3. IsFiniteSet(indices) /\ Cardinality(indices) = Cardinality(own)
  <2>1. PICK f : f = [va \in own |-> va[1]]
    OBVIOUS
  <2>2. /\ f \in [own -> indices] /\ \A a, b \in own : f[a] = f[b] => a = b
        /\ \A t \in indices : \E a \in own : f[a] = t
    BY <1>2, <2>1 DEF Separate
  <2>3. QED  BY <1>1, <2>2, SameSize
<1>4. CASE e = "6.MemPolicy"
  <2>1. TableSlots(e, own) = {0, 1} \cup indices
    BY <1>2, <1>4 DEF TableSlots
  <2>2. \A x \in {0, 1} : x \notin indices
    BY <1>2, <1>4 DEF Separate, KernelSlots
  <2>3. IsFiniteSet({0, 1}) /\ Cardinality({0, 1}) = 2
    <3>1. PICK a \in Int, b \in Int : a = 0 /\ b = 1
      OBVIOUS
    <3>2. IsFiniteSet(a .. b) /\ Cardinality(a .. b) = IF a > b THEN 0 ELSE b - a + 1
      BY FS_Interval
    <3>3. Cardinality(a .. b) = 2 /\ a .. b = {0, 1}
      BY <3>1, <3>2
    <3>4. QED  BY <3>2, <3>3
  <2>4. IsFiniteSet({0, 1} \cup indices) /\ Cardinality({0, 1} \cup indices) = 2 + Cardinality(indices)
    BY <1>3, <2>2, <2>3, DisjointSizes
  <2>5. QED  BY <1>1, <1>3, <1>4, <2>1, <2>4
<1>5. CASE e # "6.MemPolicy"
  <2>1. TableSlots(e, own) = indices
    BY <1>2, <1>5 DEF TableSlots
  <2>2. QED  BY <1>1, <1>3, <1>5, <2>1
<1>6. QED  BY <1>4, <1>5

LEMMA UsesCount ==
  ASSUME NEW e, NEW p, NEW own, Separate(e, own)
  PROVE  /\ IsFiniteSet(Uses(e, p, own))
         /\ Cardinality(Uses(e, p, own)) = 1 + Cardinality(TableSlots(e, own)) + Cardinality(own)
         /\ Cardinality(TableSlots(e, own)) \in Nat /\ Cardinality(own) \in Nat
<1>1. IsFiniteSet(own) /\ IsFiniteSet(TableSlots(e, own)) /\ Cardinality(own) \in Nat
  BY TablesCount DEF Separate
<1>2. Cardinality(TableSlots(e, own)) \in Nat
  BY <1>1, FS_CardinalityType
<1>3. PICK tables : tables = {TableUse(p, i) : i \in TableSlots(e, own)}
  OBVIOUS
<1>4. IsFiniteSet(tables) /\ Cardinality(tables) = Cardinality(TableSlots(e, own))
  <2>1. PICK f : f = [i \in TableSlots(e, own) |-> TableUse(p, i)]
    OBVIOUS
  <2>2. /\ f \in [TableSlots(e, own) -> tables]
        /\ \A a, b \in TableSlots(e, own) : f[a] = f[b] => a = b
        /\ \A t \in tables : \E a \in TableSlots(e, own) : f[a] = t
    BY <1>3, <2>1, UseFacts
  <2>3. QED  BY <1>1, <2>2, SameSize
<1>5. PICK pages : pages = {PageUse(p, va[1]) : va \in own}
  OBVIOUS
<1>6. IsFiniteSet(pages) /\ Cardinality(pages) = Cardinality(own)
  <2>1. PICK f : f = [va \in own |-> PageUse(p, va[1])]
    OBVIOUS
  <2>2. \A a, b \in own : f[a] = f[b] => a = b
    BY <2>1, UseFacts DEF Separate
  <2>3. f \in [own -> pages] /\ \A t \in pages : \E a \in own : f[a] = t
    BY <1>5, <2>1
  <2>4. QED  BY <1>1, <2>2, <2>3, SameSize
<1>7. IsFiniteSet({DirectoryUse(p)}) /\ Cardinality({DirectoryUse(p)}) = 1
  BY FS_Singleton
<1>8. /\ IsFiniteSet({DirectoryUse(p)} \cup tables)
      /\ Cardinality({DirectoryUse(p)} \cup tables) = 1 + Cardinality(tables)
  <2>1. \A x \in {DirectoryUse(p)} : x \notin tables
    BY <1>3, UseFacts
  <2>2. QED  BY <1>4, <1>7, <2>1, DisjointSizes
<1>9. /\ IsFiniteSet(({DirectoryUse(p)} \cup tables) \cup pages)
      /\ Cardinality(({DirectoryUse(p)} \cup tables) \cup pages) = 1 + Cardinality(tables) + Cardinality(pages)
  <2>1. \A x \in {DirectoryUse(p)} \cup tables : x \notin pages
    BY <1>3, <1>5, UseFacts
  <2>2. QED  BY <1>6, <1>8, <2>1, DisjointSizes
<1>10. Uses(e, p, own) = ({DirectoryUse(p)} \cup tables) \cup pages
  BY <1>3, <1>5 DEF Uses
<1>11. QED  BY <1>1, <1>2, <1>4, <1>6, <1>9, <1>10

-----------------------------------------------------------------------------
(***************************************************************************)
(* An address space in memory: its directory d, the tables and pages that  *)
(* it leads to, and nothing else.                                          *)
(***************************************************************************)
\* The address va leads through the table q to the page r.
Leads(m, d, va, q, r) == m[d][va[1]] = Entry(q, USER) /\ m[q] = OneWord(va[2], Entry(r, USER))

Leading(m, d, use, p, va) ==
  \E q, r \in Page : Leads(m, d, va, q, r) /\ use[q] = TableUse(p, va[1]) /\ use[r] = PageUse(p, va[1])

\* Entry k of the directory leads to the table that maps memory onto itself.
Identity(m, d, use, p, k) ==
  \E q \in Page : m[d][k] = Entry(q, KERNEL) /\ m[q] = IdentityTable(k) /\ use[q] = TableUse(p, k)

KernelIn(e, m, d, use, p) ==
  IF e = "6.MemPolicy" THEN Identity(m, d, use, p, 0) /\ Identity(m, d, use, p, 1)
  ELSE \A i \in KernelEntries : m[d][i] = Entry(SPEDE_TABLE + i, KERNEL)

Space(e, m, d, use, p, own) ==
  /\ d \in Page /\ use[d] = DirectoryUse(p)
  /\ KernelIn(e, m, d, use, p)
  /\ \A va \in own : Leading(m, d, use, p, va)
  /\ \A i \in Slots : i \notin KernelSlots(e) => m[d][i] = NULL \/ \E va \in own : va[1] = i

\* The directory and the tables of p stay what they are.
Agree(m, n, use, p) ==
  \A q \in Page : (use[q] = DirectoryUse(p) \/ \E i \in Slots : use[q] = TableUse(p, i)) => n[q] = m[q]

LEMMA LeadingStays ==
  ASSUME NEW m, NEW d \in Page, NEW use, NEW p, use[d] = DirectoryUse(p), NEW va \in Slots \X Slots,
         Leading(m, d, use, p, va), NEW n, Agree(m, n, use, p), NEW new, Extends(use, new)
  PROVE  Leading(n, d, new, p, va)
<1>1. va[1] \in Slots
  OBVIOUS
<1>2. PICK q, r \in Page : Leads(m, d, va, q, r) /\ use[q] = TableUse(p, va[1]) /\ use[r] = PageUse(p, va[1])
  BY DEF Leading
<1>3. n[d] = m[d] /\ n[q] = m[q]
  BY <1>1, <1>2 DEF Agree
<1>4. Leads(n, d, va, q, r)
  BY <1>2, <1>3 DEF Leads
<1>5. new[q] = use[q] /\ new[r] = use[r]
  BY <1>2, UseFacts DEF Extends
<1>6. QED  BY <1>2, <1>4, <1>5 DEF Leading

LEMMA IdentityStays ==
  ASSUME NEW m, NEW d \in Page, NEW use, NEW p, use[d] = DirectoryUse(p), NEW k \in Slots,
         Identity(m, d, use, p, k), NEW n, Agree(m, n, use, p), NEW new, Extends(use, new)
  PROVE  Identity(n, d, new, p, k)
<1>1. PICK q \in Page : m[d][k] = Entry(q, KERNEL) /\ m[q] = IdentityTable(k) /\ use[q] = TableUse(p, k)
  BY DEF Identity
<1>2. n[d] = m[d] /\ n[q] = m[q]
  BY <1>1 DEF Agree
<1>3. new[q] = use[q]
  BY <1>1, UseFacts DEF Extends
<1>4. QED  BY <1>1, <1>2, <1>3 DEF Identity

LEMMA SpaceStays ==
  ASSUME NEW e, NEW m, NEW d, NEW use, NEW p, NEW own, own \subseteq Slots \X Slots, Space(e, m, d, use, p, own),
         NEW n, Agree(m, n, use, p), NEW new, Extends(use, new)
  PROVE  Space(e, n, d, new, p, own)
<1>1. d \in Page /\ use[d] = DirectoryUse(p) /\ new[d] = DirectoryUse(p)
  BY UseFacts DEF Space, Extends
<1>2. n[d] = m[d]
  BY <1>1 DEF Agree
<1>3. \A va \in own : Leading(n, d, new, p, va)
  <2>1. ASSUME NEW va \in own PROVE Leading(n, d, new, p, va)
    <3>1. va \in Slots \X Slots /\ Leading(m, d, use, p, va)
      BY DEF Space
    <3>2. QED  BY <1>1, <3>1, LeadingStays
  <2>2. QED  BY <2>1
<1>4. KernelIn(e, n, d, new, p)
  <2>1. CASE e = "6.MemPolicy"
    <3>1. Identity(m, d, use, p, 0) /\ Identity(m, d, use, p, 1)
      BY <2>1 DEF Space, KernelIn
    <3>2. 0 \in Slots /\ 1 \in Slots
      BY Sizes
    <3>3. Identity(n, d, new, p, 0) /\ Identity(n, d, new, p, 1)
      BY <1>1, <3>1, <3>2, IdentityStays
    <3>4. QED  BY <2>1, <3>3 DEF KernelIn
  <2>2. CASE e # "6.MemPolicy"
    BY <1>2, <2>2 DEF Space, KernelIn
  <2>3. QED  BY <2>1, <2>2
<1>5. \A i \in Slots : i \notin KernelSlots(e) => n[d][i] = NULL \/ \E va \in own : va[1] = i
  BY <1>2 DEF Space
<1>6. QED  BY <1>1, <1>3, <1>4, <1>5 DEF Space

-----------------------------------------------------------------------------
(***************************************************************************)
(* What the processor makes of an address.                                 *)
(***************************************************************************)
LEMMA TranslatedIs ==
  ASSUME NEW m, NEW word, NEW d, PageOf(word) = d, NEW va, NEW flags,
         NEW table, table = m[d][va[1]], NEW entry, entry = m[PageOf(table)][va[2]]
  PROVE  Translated(m, word, va, flags) =
           IF flags \subseteq FlagsOf(table) /\ flags \subseteq FlagsOf(entry) THEN PageOf(entry) ELSE Nobody
<1>1. Translated(m, word, va, flags) =
        IF flags \subseteq FlagsOf(table) \cap FlagsOf(entry) THEN PageOf(entry) ELSE Nobody
  BY DEF Translated
<1>2. flags \subseteq FlagsOf(table) \cap FlagsOf(entry) <=> flags \subseteq FlagsOf(table) /\ flags \subseteq FlagsOf(entry)
  OBVIOUS
<1>3. QED  BY <1>1, <1>2

LEMMA OneWordAt ==
  ASSUME NEW i \in Slots, NEW word
  PROVE  OneWord(i, word)[i] = word /\ \A k \in Slots : k # i => OneWord(i, word)[k] = NULL
  BY DEF OneWord

LEMMA TranslatedLeads ==
  ASSUME NEW m, NEW word, NEW d, PageOf(word) = d, NEW va \in Slots \X Slots,
         NEW q \in Page, NEW r \in Page, Leads(m, d, va, q, r), NEW flags, flags \subseteq USER
  PROVE  Translated(m, word, va, flags) = r
<1>1. va[1] \in Slots /\ va[2] \in Slots
  OBVIOUS
<1>2. m[d][va[1]] = Entry(q, USER) /\ m[q] = OneWord(va[2], Entry(r, USER))
  BY DEF Leads
<1>3. /\ PageOf(Entry(q, USER)) = q /\ FlagsOf(Entry(q, USER)) = USER
      /\ PageOf(Entry(r, USER)) = r /\ FlagsOf(Entry(r, USER)) = USER
  BY WordFacts, FlagFacts
<1>4. m[q][va[2]] = Entry(r, USER)
  BY <1>1, <1>2, OneWordAt
<1>5. PICK table, entry : table = m[d][va[1]] /\ entry = m[PageOf(table)][va[2]]
  OBVIOUS
<1>6. table = Entry(q, USER) /\ entry = Entry(r, USER)
  BY <1>2, <1>3, <1>4, <1>5
<1>7. Translated(m, word, va, flags) =
        IF flags \subseteq FlagsOf(table) /\ flags \subseteq FlagsOf(entry) THEN PageOf(entry) ELSE Nobody
  BY <1>5, TranslatedIs
<1>8. QED  BY <1>3, <1>6, <1>7

LEMMA TranslatedNone ==
  ASSUME NEW e, NEW m, NEW word, NEW d, PageOf(word) = d, NEW use, NEW p, NEW own, Space(e, m, d, use, p, own),
         own \subseteq Slots \X Slots, NEW va \in Slots \X Slots, va \notin own, va[1] \notin KernelSlots(e),
         NEW flags, flags # {}
  PROVE  Translated(m, word, va, flags) = Nobody
<1>1. va[1] \in Slots /\ va[2] \in Slots
  OBVIOUS
<1>2. PICK table, entry : table = m[d][va[1]] /\ entry = m[PageOf(table)][va[2]]
  OBVIOUS
<1>3. Translated(m, word, va, flags) =
        IF flags \subseteq FlagsOf(table) /\ flags \subseteq FlagsOf(entry) THEN PageOf(entry) ELSE Nobody
  BY <1>2, TranslatedIs
<1>4. FlagsOf(table) = {} \/ FlagsOf(entry) = {}
  <2>1. CASE m[d][va[1]] = NULL
    BY <1>2, <2>1, WordFacts
  <2>2. CASE m[d][va[1]] # NULL
    <3>1. PICK a \in own : a[1] = va[1]
      BY <1>1, <2>2 DEF Space
    <3>2. a \in Slots \X Slots /\ a # va
      OBVIOUS
    <3>3. a[2] \in Slots /\ a[2] # va[2]
      BY <3>1, <3>2
    <3>4. Leading(m, d, use, p, a)
      BY DEF Space
    <3>5. PICK q, r \in Page : Leads(m, d, a, q, r)
      BY <3>4 DEF Leading
    <3>6. m[d][va[1]] = Entry(q, USER) /\ m[q] = OneWord(a[2], Entry(r, USER))
      BY <3>1, <3>5 DEF Leads
    <3>7. PageOf(Entry(q, USER)) = q
      BY WordFacts, FlagFacts
    <3>8. entry = NULL
      BY <1>1, <1>2, <3>3, <3>6, <3>7, OneWordAt
    <3>9. QED  BY <3>8, WordFacts
  <2>3. QED  BY <2>1, <2>2
<1>5. QED  BY <1>3, <1>4

LEMMA TranslatedIdentity ==
  ASSUME NEW m, NEW word, NEW d, PageOf(word) = d, NEW use, NEW p, NEW k \in {0, 1}, Identity(m, d, use, p, k),
         NEW i \in Slots, NEW va, va = <<k, i>>
  PROVE  Translated(m, word, va, KERNEL) = i + k * ENTRIES /\ Translated(m, word, va, USER) = Nobody
<1>1. PICK q \in Page : m[d][k] = Entry(q, KERNEL) /\ m[q] = IdentityTable(k)
  BY DEF Identity
<1>2. PICK to \in Page : to = i + k * ENTRIES /\ IdentityTable(k)[i] = Entry(to, KERNEL)
  BY IdentityTableTyped
<1>3. PICK table, entry : table = m[d][va[1]] /\ entry = m[PageOf(table)][va[2]]
  OBVIOUS
<1>4. va[1] = k /\ va[2] = i
  OBVIOUS
<1>5. /\ PageOf(Entry(q, KERNEL)) = q /\ FlagsOf(Entry(q, KERNEL)) = KERNEL
      /\ PageOf(Entry(to, KERNEL)) = to /\ FlagsOf(Entry(to, KERNEL)) = KERNEL
  BY WordFacts, FlagFacts
<1>6. table = Entry(q, KERNEL) /\ entry = Entry(to, KERNEL)
  BY <1>1, <1>2, <1>3, <1>4, <1>5
<1>7. \A flags : Translated(m, word, va, flags) =
        IF flags \subseteq FlagsOf(table) /\ flags \subseteq FlagsOf(entry) THEN PageOf(entry) ELSE Nobody
  BY <1>3, TranslatedIs
<1>8. Translated(m, word, va, KERNEL) = to /\ Translated(m, word, va, USER) = Nobody
  BY <1>5, <1>6, <1>7, FlagFacts
<1>9. QED  BY <1>2, <1>8

\* The kernel's entries are closed to user mode.
LEMMA TranslatedKernel ==
  ASSUME NEW m, NEW word, NEW d, PageOf(word) = d, NEW va, NEW q \in Page, m[d][va[1]] = Entry(q, KERNEL)
  PROVE  Translated(m, word, va, USER) = Nobody
<1>1. PICK table, entry : table = m[d][va[1]] /\ entry = m[PageOf(table)][va[2]]
  OBVIOUS
<1>2. FlagsOf(table) = KERNEL
  BY <1>1, WordFacts, FlagFacts
<1>3. Translated(m, word, va, USER) =
        IF USER \subseteq FlagsOf(table) /\ USER \subseteq FlagsOf(entry) THEN PageOf(entry) ELSE Nobody
  BY <1>1, TranslatedIs
<1>4. QED  BY <1>2, <1>3, FlagFacts

-----------------------------------------------------------------------------
(***************************************************************************)
(* A page fault of 6.MemPolicy, and its setup_pagetable, by the pages that *)
(* they take.                                                              *)
(***************************************************************************)
WithMem(s, m) == [s EXCEPT !.mem = m]

LEMMA WithMemIs ==
  ASSUME NEW s, NEW m, NEW list, NEW got, s = Cell(m, list, got), NEW n
  PROVE  WithMem(s, n) = Cell(n, list, got)
<1>1. s = [mem |-> m, freelist |-> list, got |-> got]
  BY DEF Cell
<1>2. QED  BY <1>1 DEF WithMem, Cell

Indexed(va, i, j) == va[1] = i /\ va[2] = j

IsNull(m, d, i) == m[d][i] = NULL

LEMMA FaultMaps ==
  ASSUME NEW s, NEW lo, NEW hi, Allocates(s, lo, hi), Room(lo, hi, 2), NEW a, Below(a, hi), NEW c, Below(c, a),
         NEW d \in Page, hi < d, PageOf(pagetable[active]) = d,
         NEW va, NEW i \in Slots, NEW j \in Slots, Indexed(va, i, j), IsNull(s.mem, d, i),
         NEW t, t = MemPolicy_page_fault_handler(s, va)
  PROVE  Maps(s, t, d, i, j, hi, a) /\ Allocates(t, lo, c)
<1>1. /\ lo \in Nat /\ hi \in Nat /\ a \in Nat /\ lo <= hi /\ lo <= a /\ hi \in Page /\ a \in Page /\ hi # a
      /\ d # hi /\ d # a /\ c < a /\ c < hi /\ c < d /\ a < d
  <2>1. lo \in Nat /\ lo > 0 /\ hi \in Nat /\ hi < 2 * ENTRIES
    BY FreeToSizes DEF Allocates
  <2>2. lo <= hi - 1 /\ a = hi - 1 /\ c = a - 1
    BY <2>1 DEF Room, Below
  <2>3. d \in Nat
    BY Sizes
  <2>4. hi \in Page /\ a \in Page
    BY <2>1, <2>2, Sizes
  <2>5. QED  BY <2>1, <2>2, <2>3, <2>4
<1>2. Entry(hi, USER) \in Word /\ Entry(a, USER) \in Word
  BY <1>1, WordFacts, FlagFacts
<1>3. va[1] = i /\ va[2] = j
  BY DEF Indexed
<1>4. PICK table : table = kpagemake(s)
  OBVIOUS
<1>5. Takes(s, table, hi) /\ Allocates(table, lo, a)
  BY <1>1, <1>4, KpagemakeTakes
<1>6. PICK m : m = Worded(table.mem, d, i, Entry(hi, USER))
  OBVIOUS
<1>7. PICK linked : linked = Set(table, d, i, Entry(hi, USER))
  OBVIOUS
<1>8. linked = Cell(m, table.freelist, hi)
  <2>1. table = Cell(table.mem, table.freelist, hi)
    BY <1>5 DEF Takes
  <2>2. Set(Cell(table.mem, table.freelist, hi), d, i, Entry(hi, USER)) = Cell(m, table.freelist, hi)
    BY <1>6, SetIs
  <2>3. QED  BY <1>7, <2>1, <2>2
<1>9. linked.mem = m /\ linked.freelist = table.freelist
  BY <1>8 DEF Cell
<1>10. m \in Memory /\ m[d] = WithWord(table.mem[d], i, Entry(hi, USER)) /\ SameBut(table.mem, m, {d})
  <2>1. table.mem \in Memory
    BY <1>5 DEF Allocates
  <2>2. QED  BY <1>2, <1>6, <2>1, WithWordIs
<1>11. Allocates(linked, lo, a)
  <2>1. FreeTo(table.mem, table.freelist, lo, a)
    BY <1>5 DEF Allocates
  <2>2. \A q \in {d} : q > a
    BY <1>1
  <2>3. FreeTo(m, table.freelist, lo, a)
    BY <1>10, <2>1, <2>2, FreeStays
  <2>4. QED  BY <1>9, <1>10, <2>3 DEF Allocates
<1>12. PICK new : new = kpagemake(linked)
  OBVIOUS
<1>13. Takes(linked, new, a) /\ Allocates(new, lo, c)
  BY <1>1, <1>11, <1>12, KpagemakeTakes
<1>14. PICK n : n = Worded(new.mem, hi, j, Entry(a, USER))
  OBVIOUS
<1>15. t = Cell(n, new.freelist, a)
  <2>1. table.got = hi /\ new.got = a /\ new = Cell(new.mem, new.freelist, a)
    BY <1>5, <1>13 DEF Takes
  <2>2. t = WithMem(new, StoreAt(new.mem, Entry(hi, {}), j, Entry(a, USER)))
    <3>1. PICK where : where = Entry(table.got, {})
      OBVIOUS
    <3>2. linked = Set(table, d, i, Entry(table.got, USER))
      BY <1>7, <2>1
    <3>3. t = [new EXCEPT !.mem = StoreAt(new.mem, where, j, Entry(new.got, USER))]
      BY <1>3, <1>4, <1>12, <3>1, <3>2 DEF MemPolicy_page_fault_handler, IsNull
    <3>4. QED  BY <2>1, <3>1, <3>3 DEF WithMem
  <2>3. StoreAt(new.mem, Entry(hi, {}), j, Entry(a, USER)) = n
    <3>1. PageOf(Entry(hi, {})) = hi /\ FlagsOf(Entry(hi, {})) = {}
      BY <1>1, WordFacts, FlagFacts
    <3>2. QED  BY <1>14, <3>1 DEF StoreAt, Worded
  <2>4. QED  BY <2>1, <2>2, <2>3, WithMemIs
<1>16. new.mem \in Memory /\ new.mem[hi] = ZeroPage /\ new.mem[d] = m[d] /\ new.mem[a] = ZeroPage
  <2>1. table.mem[hi] = ZeroPage /\ m[hi] = table.mem[hi]
    BY <1>1, <1>5, <1>10 DEF Takes, SameBut
  <2>2. SameBut(m, new.mem, {a}) /\ new.mem[a] = ZeroPage /\ new.mem \in Memory
    BY <1>9, <1>13 DEF Takes, Allocates
  <2>3. QED  BY <1>1, <2>1, <2>2 DEF SameBut
<1>17. n \in Memory /\ n[hi] = OneWord(j, Entry(a, USER)) /\ SameBut(new.mem, n, {hi})
  BY <1>1, <1>2, <1>14, <1>16, OneWordIs
<1>18. n[d] = WithWord(s.mem[d], i, Entry(hi, USER)) /\ n[a] = ZeroPage
  <2>1. table.mem[d] = s.mem[d]
    BY <1>1, <1>5 DEF Takes, SameBut
  <2>2. n[d] = new.mem[d] /\ n[a] = new.mem[a]
    BY <1>1, <1>17 DEF SameBut
  <2>3. QED  BY <1>10, <1>16, <2>1, <2>2
<1>19. SameBut(s.mem, n, {d, hi, a})
  <2>1. SameBut(s.mem, table.mem, {hi}) /\ SameBut(m, new.mem, {a})
    BY <1>5, <1>9, <1>13 DEF Takes
  <2>2. QED  BY <1>10, <1>17, <2>1 DEF SameBut
<1>20. FreeTo(n, new.freelist, lo, c)
  <2>1. FreeTo(new.mem, new.freelist, lo, c)
    BY <1>13 DEF Allocates
  <2>2. \A q \in {hi} : q > c
    BY <1>1
  <2>3. QED  BY <1>17, <2>1, <2>2, FreeStays
<1>21. t.mem = n /\ t.freelist = new.freelist
  BY <1>15 DEF Cell
<1>22. QED  BY <1>15, <1>17, <1>18, <1>19, <1>20, <1>21 DEF Maps, Allocates

MemPolicyDirectory(a, b) ==
  [i \in Slots |-> IF i = 0 THEN Entry(a, KERNEL) ELSE IF i = 1 THEN Entry(b, KERNEL) ELSE NULL]

LEMMA MemPolicySetupTakes ==
  ASSUME NEW s, NEW lo, NEW hi, Allocates(s, lo, hi), Room(lo, hi, 3),
         NEW a, Below(a, hi), NEW b, Below(b, a), NEW c, Below(c, b),
         NEW t, t = MemPolicy_setup_pagetable(s)
  PROVE  /\ t.got = hi /\ Allocates(t, lo, c) /\ SameBut(s.mem, t.mem, {hi, a, b})
         /\ Holds(t.mem, hi, MemPolicyDirectory(a, b))
         /\ Holds(t.mem, a, IdentityTable(0)) /\ Holds(t.mem, b, IdentityTable(1))
<1>1. /\ lo \in Nat /\ hi \in Nat /\ hi \in Page /\ a \in Page /\ b \in Page /\ b # hi /\ a # hi /\ b # a
      /\ lo <= hi /\ lo <= a /\ lo <= b /\ a > b /\ hi > b /\ hi > c /\ b > c
  <2>1. lo \in Nat /\ hi \in Nat /\ hi < 2 * ENTRIES
    BY FreeToSizes DEF Allocates
  <2>2. QED  BY <2>1, Sizes DEF Room, Below
<1>3. 0 \in Slots /\ 1 \in Slots /\ Entry(a, KERNEL) \in Word /\ Entry(b, KERNEL) \in Word
  BY <1>1, WordFacts, FlagFacts, Sizes
<1>4. PICK directory : directory = kpagemake(s)
  OBVIOUS
<1>5. /\ directory.got = hi /\ directory.mem[hi] = ZeroPage /\ SameBut(s.mem, directory.mem, {hi})
      /\ Allocates(directory, lo, a)
  BY <1>1, <1>4, KpagemakeTakes DEF Takes
<1>6. PICK first : first = kpagemake(directory)
  OBVIOUS
<1>7. /\ first = [mem |-> first.mem, freelist |-> first.freelist, got |-> a]
      /\ first.mem[a] = ZeroPage /\ SameBut(directory.mem, first.mem, {a})
      /\ first.mem \in Memory /\ FreeTo(first.mem, first.freelist, lo, b)
  <2>1. Takes(directory, first, a) /\ Allocates(first, lo, b)
    BY <1>1, <1>5, <1>6, KpagemakeTakes
  <2>2. QED  BY <2>1 DEF Takes, Allocates, Cell
<1>8. PICK low : low = [first EXCEPT !.mem[first.got] = [i \in Slots |-> Entry(i, KERNEL)],
                                     !.mem[directory.got][0] = Entry(first.got, KERNEL)]
  OBVIOUS
<1>9. PICK m : m = Paged(first.mem, a, IdentityTable(0))
  OBVIOUS
<1>10. low.freelist = first.freelist /\ low.mem = Worded(m, hi, 0, Entry(a, KERNEL))
  <2>1. IdentityTable(0) = [i \in Slots |-> Entry(i, KERNEL)]
    BY Sizes DEF IdentityTable
  <2>2. /\ low.freelist = first.freelist
        /\ low.mem = [[first.mem EXCEPT ![a] = [i \in Slots |-> Entry(i, KERNEL)]] EXCEPT ![hi][0] = Entry(a, KERNEL)]
    <3>1. directory.got = hi /\ first.got = a /\ first = [mem |-> first.mem, freelist |-> first.freelist, got |-> a]
      BY <1>5, <1>7
    <3>2. low = [first EXCEPT !.mem[a] = [i \in Slots |-> Entry(i, KERNEL)], !.mem[hi][0] = Entry(a, KERNEL)]
      BY <1>8, <3>1
    <3>3. QED  BY <3>1, <3>2
  <2>3. QED  BY <1>9, <2>1, <2>2 DEF Paged, Worded
<1>11. m \in Memory /\ m[a] = IdentityTable(0) /\ SameBut(first.mem, m, {a})
  <2>1. IdentityTable(0) \in [Slots -> Word]
    BY IdentityTableTyped
  <2>2. QED  BY <1>1, <1>7, <1>9, <2>1, PagedIs
<1>12. /\ low.mem \in Memory /\ SameBut(m, low.mem, {hi})
       /\ low.mem[hi] = [i \in Slots |-> IF i = 0 THEN Entry(a, KERNEL) ELSE m[hi][i]]
  BY <1>1, <1>3, <1>10, <1>11, WordedIs
<1>13. m[hi] = ZeroPage /\ low.mem[a] = IdentityTable(0)
  BY <1>1, <1>5, <1>7, <1>11, <1>12 DEF SameBut
<1>14. SameBut(first.mem, low.mem, {hi, a})
  BY <1>11, <1>12 DEF SameBut
<1>15. FreeTo(low.mem, low.freelist, lo, b)
  <2>1. \A q \in {hi, a} : q > b
    BY <1>1
  <2>2. QED  BY <1>7, <1>10, <1>14, <2>1, FreeStays
<1>16. PICK second : second = kpagemake(low)
  OBVIOUS
<1>17. Allocates(low, lo, b)
  BY <1>12, <1>15 DEF Allocates
<1>18. /\ second = [mem |-> second.mem, freelist |-> second.freelist, got |-> b]
       /\ SameBut(low.mem, second.mem, {b})
       /\ second.mem \in Memory /\ FreeTo(second.mem, second.freelist, lo, c)
  <2>1. Takes(low, second, b) /\ Allocates(second, lo, c)
    BY <1>1, <1>16, <1>17, KpagemakeTakes
  <2>2. QED  BY <2>1 DEF Takes, Allocates, Cell
<1>19. PICK n : n = Paged(second.mem, b, IdentityTable(1))
  OBVIOUS
<1>20. t.got = hi /\ t.freelist = second.freelist /\ t.mem = Worded(n, hi, 1, Entry(b, KERNEL))
  <2>1. t = [second EXCEPT !.mem[second.got] = [i \in Slots |-> Entry(i + ENTRIES, KERNEL)],
                           !.mem[directory.got][1] = Entry(second.got, KERNEL), !.got = directory.got]
    BY <1>4, <1>6, <1>8, <1>16 DEF MemPolicy_setup_pagetable
  <2>2. IdentityTable(1) = [i \in Slots |-> Entry(i + ENTRIES, KERNEL)]
    BY Sizes DEF IdentityTable
  <2>3. /\ t.got = hi /\ t.freelist = second.freelist
        /\ t.mem = [[second.mem EXCEPT ![b] = [i \in Slots |-> Entry(i + ENTRIES, KERNEL)]] EXCEPT ![hi][1] = Entry(b, KERNEL)]
    <3>1. directory.got = hi /\ second.got = b /\ second = [mem |-> second.mem, freelist |-> second.freelist, got |-> b]
      BY <1>5, <1>18
    <3>2. t = [second EXCEPT !.mem[b] = [i \in Slots |-> Entry(i + ENTRIES, KERNEL)],
                             !.mem[hi][1] = Entry(b, KERNEL), !.got = hi]
      BY <2>1, <3>1
    <3>3. QED  BY <3>1, <3>2
  <2>4. QED  BY <1>19, <2>2, <2>3 DEF Paged, Worded
<1>21. n \in Memory /\ n[b] = IdentityTable(1) /\ SameBut(second.mem, n, {b})
  <2>1. IdentityTable(1) \in [Slots -> Word]
    BY IdentityTableTyped
  <2>2. QED  BY <1>1, <1>18, <1>19, <2>1, PagedIs
<1>22. /\ t.mem \in Memory /\ SameBut(n, t.mem, {hi})
       /\ t.mem[hi] = [i \in Slots |-> IF i = 1 THEN Entry(b, KERNEL) ELSE n[hi][i]]
  BY <1>1, <1>3, <1>20, <1>21, WordedIs
<1>23. n[hi] = low.mem[hi] /\ n[a] = low.mem[a]
  BY <1>1, <1>18, <1>21 DEF SameBut
<1>24. t.mem[hi] = [i \in Slots |-> IF i = 0 THEN Entry(a, KERNEL) ELSE IF i = 1 THEN Entry(b, KERNEL) ELSE NULL]
  BY <1>3, <1>12, <1>13, <1>22, <1>23, ZeroPageTyped
<1>25. t.mem[a] = IdentityTable(0) /\ t.mem[b] = IdentityTable(1)
  BY <1>1, <1>13, <1>21, <1>22, <1>23 DEF SameBut
<1>26. SameBut(second.mem, t.mem, {hi, b})
  BY <1>21, <1>22 DEF SameBut
<1>27. SameBut(s.mem, t.mem, {hi, a, b})
  BY <1>5, <1>7, <1>14, <1>18, <1>26 DEF SameBut
<1>28. FreeTo(t.mem, t.freelist, lo, c)
  <2>1. \A q \in {hi, b} : q > c
    BY <1>1
  <2>2. QED  BY <1>18, <1>20, <1>26, <2>1, FreeStays
<1>29. QED  BY <1>20, <1>22, <1>24, <1>25, <1>27, <1>28 DEF Allocates, Holds, MemPolicyDirectory

-----------------------------------------------------------------------------
(***************************************************************************)
(* kinit(): the pages lo to last become free, one after the other.         *)
(***************************************************************************)
IsCell(s) == s = Cell(s.mem, s.freelist, s.got)

\* The first byte of a page, in quarters.
FirstByte(va, q) == va = q * PAGE_SIZE

LEMMA KfreeAdds ==
  ASSUME NEW s, IsCell(s), NEW lo \in Page, lo > 0, NEW h, Allocates(s, lo, h), NEW hi \in Page, Below(h, hi),
         lo <= hi, NEW va, FirstByte(va, hi), NEW t, t = kfree(s, va)
  PROVE  IsCell(t) /\ Allocates(t, lo, hi) /\ SameBut(s.mem, t.mem, {hi})
<1>1. hi \in Nat /\ hi < 2 * ENTRIES /\ lo \in Nat /\ h = hi - 1 /\ 0 \in Slots
  BY Sizes DEF Below
<1>2. va % PAGE_SIZE = 0 /\ ~(va >= PAGE_STOP) /\ va \div PAGE_SIZE = hi
  BY <1>1, Sizes DEF FirstByte, PAGE_SIZE, PAGE_STOP
<1>3. PICK m, list, got : m = s.mem /\ list = s.freelist /\ got = s.got
  OBVIOUS
<1>4. m \in Memory /\ FreeTo(m, list, lo, h)
  BY <1>3 DEF Allocates
<1>5. s = [mem |-> m, freelist |-> list, got |-> got]
  BY <1>3 DEF IsCell, Cell
<1>6. PICK cleared, n : cleared = memset(m, hi, 1) /\ n = Worded(cleared, hi, 0, list)
  OBVIOUS
<1>7. t = Cell(n, Entry(hi, {}), got)
  <2>1. t = [s EXCEPT !.mem = [memset(m, hi, 1) EXCEPT ![hi][0] = list], !.freelist = Entry(hi, {})]
    BY <1>2, <1>3, <1>5 DEF kfree
  <2>2. n = [memset(m, hi, 1) EXCEPT ![hi][0] = list]
    BY <1>6 DEF Worded
  <2>3. t = [s EXCEPT !.mem = n, !.freelist = Entry(hi, {})]
    BY <2>1, <2>2
  <2>4. QED  BY <1>5, <2>3 DEF Cell
<1>8. cleared \in Memory /\ SameBut(m, cleared, {hi})
  <2>1. PICK words : words = [i \in Slots |-> Fill(1)]
    OBVIOUS
  <2>2. words \in [Slots -> Word]
    BY <2>1, WordFacts
  <2>3. cleared = Paged(m, hi, words)
    BY <1>6, <2>1 DEF memset, Paged
  <2>4. QED  BY <1>4, <2>2, <2>3, PagedIs
<1>9. list = LinkTo(lo, h) /\ list \in Word
  <2>1. list = LinkTo(lo, h) /\ h \in Int /\ (h >= lo => h \in Page)
    BY <1>1, <1>4, Sizes DEF FreeTo
  <2>2. QED  BY <1>1, <2>1, WordFacts, FlagFacts DEF LinkTo
<1>10. n \in Memory /\ n[hi] = WithWord(cleared[hi], 0, list) /\ SameBut(cleared, n, {hi})
  BY <1>1, <1>6, <1>8, <1>9, WithWordIs
<1>11. SameBut(m, n, {hi})
  BY <1>8, <1>10 DEF SameBut
<1>12. n[hi][0] = LinkTo(lo, h)
  BY <1>1, <1>9, <1>10 DEF WithWord
<1>13. \A q \in lo .. hi : n[q][0] = LinkTo(lo, q - 1)
  <2>1. ASSUME NEW q \in lo .. hi PROVE n[q][0] = LinkTo(lo, q - 1)
    <3>1. CASE q = hi
      BY <1>1, <1>12, <3>1
    <3>2. CASE q # hi
      <4>1. q \in lo .. h /\ q \in Page \ {hi}
        BY <1>1, <3>2, Sizes
      <4>2. m[q][0] = LinkTo(lo, q - 1) /\ n[q] = m[q]
        BY <1>4, <1>11, <4>1 DEF FreeTo, SameBut
      <4>3. QED  BY <4>2
    <3>3. QED  BY <3>1, <3>2
  <2>2. QED  BY <2>1
<1>14. FreeTo(n, Entry(hi, {}), lo, hi)
  <2>1. Entry(hi, {}) = LinkTo(lo, hi)
    BY <1>1 DEF LinkTo
  <2>2. hi \in lo - 1 .. 2 * ENTRIES - 1
    BY <1>1, Sizes
  <2>3. QED  BY <1>13, <2>1, <2>2 DEF FreeTo
<1>15. t.mem = n /\ t.freelist = Entry(hi, {}) /\ t.got = got
  BY <1>7 DEF Cell
<1>16. IsCell(t)
  BY <1>7, <1>15 DEF IsCell
<1>17. QED  BY <1>3, <1>10, <1>11, <1>14, <1>15, <1>16 DEF Allocates

\* The loop of freerange(), by rounds.
LEMMA FreerangeIs ==
  ASSUME NEW s, NEW vstart, NEW vend, NEW p, p = PAGE_ALIGN(vstart), NEW n \in Nat, n = (vend - p) \div PAGE_SIZE
  PROVE  \E f : /\ f[0] = s /\ f[n] = freerange(s, vstart, vend)
                /\ \A k \in 0 .. n - 1 : f[k + 1] = kfree(f[k], p + k * PAGE_SIZE)
<1> DEFINE Step(x, k) == kfree(x, p + (k - 1) * PAGE_SIZE)
           Is(f, last) == f = [k \in 0 .. last |-> IF k = 0 THEN s ELSE Step(f[k - 1], k)]
           T == {last \in Nat : \E f : Is(f, last)}
<1>1. T = Nat
  <2> HIDE DEF Step
  <2>1. 0 \in T
    <3>1. Is([k \in 0 .. 0 |-> s], 0)
      OBVIOUS
    <3>2. QED  BY <3>1
  <2>2. ASSUME NEW last \in Nat, last \in T PROVE last + 1 \in T
    <3>1. PICK f : Is(f, last)
      BY <2>2
    <3> DEFINE g == [k \in 0 .. last + 1 |-> IF k <= last THEN f[k] ELSE Step(f[last], k)]
    <3>2. ASSUME NEW k \in 0 .. last + 1 PROVE g[k] = IF k = 0 THEN s ELSE Step(g[k - 1], k)
      BY <3>1
    <3> HIDE DEF Is
    <3>3. Is(g, last + 1)
      BY <3>2 DEF Is
    <3>4. QED  BY <3>3
  <2>3. QED
    <3> HIDE DEF T
    <3>1. Nat \subseteq T
      BY <2>1, <2>2, NatSetInduction
    <3>2. QED  BY <3>1 DEF T
<1> DEFINE freed == CHOOSE f : Is(f, n)
<1>2. Is(freed, n)
  BY <1>1
<1>3. freerange(s, vstart, vend) = freed[n]
  BY DEF freerange
<1> HIDE DEF freed
<1>4. QED
  <2> HIDE DEF Step
  <2>1. freed[0] = s /\ \A k \in 0 .. n - 1 : freed[k + 1] = Step(freed[k], k + 1)
    BY <1>2
  <2>2. \A k \in 0 .. n - 1 : Step(freed[k], k + 1) = kfree(freed[k], p + k * PAGE_SIZE)
    BY DEF Step
  <2>3. QED  BY <1>3, <2>1, <2>2

LEMMA KinitIs ==
  ASSUME NEW m \in Memory, NEW s, s = Cell(m, NULL, 0), NEW lo \in Page, lo > 0, NEW last \in Page, lo <= last,
         NEW vstart, NEW vend, FirstByte(PAGE_ALIGN(vstart), lo),
         (vend - PAGE_ALIGN(vstart)) \div PAGE_SIZE = last - lo + 1,
         NEW t, t = kinit(s, vstart, vend)
  PROVE  Allocates(t, lo, last) /\ \A q \in Page : q < lo \/ q > last => t.mem[q] = m[q]
<1>1. lo \in Nat /\ last \in Nat /\ last < 2 * ENTRIES
  BY Sizes
<1>2. PICK n \in Nat : n = last - lo + 1
  BY <1>1
<1>3. PICK p : p = PAGE_ALIGN(vstart)
  OBVIOUS
<1>4. PICK f : /\ f[0] = s /\ f[n] = t
               /\ \A k \in 0 .. n - 1 : f[k + 1] = kfree(f[k], p + k * PAGE_SIZE)
  <2>1. n = (vend - p) \div PAGE_SIZE
    BY <1>2, <1>3
  <2>2. t = freerange(s, vstart, vend)
    BY DEF kinit
  <2>3. QED  BY <1>3, <2>1, <2>2, FreerangeIs
<1> DEFINE After(k) == /\ IsCell(f[k]) /\ Allocates(f[k], lo, lo + k - 1)
                       /\ \A q \in Page : q < lo \/ q > last => f[k].mem[q] = m[q]
           T == {k \in 0 .. n : After(k)}
<1>5. After(0)
  <2>1. s.mem = m /\ s.freelist = NULL /\ s.got = 0
    BY DEF Cell
  <2>2. IsCell(s)
    BY <2>1 DEF IsCell
  <2>3. FreeTo(m, NULL, lo, lo + 0 - 1)
    <3>1. PICK h \in Int : h = lo - 1 /\ h < lo /\ h \in lo - 1 .. 2 * ENTRIES - 1
      BY <1>1, Sizes
    <3>2. LinkTo(lo, h) = NULL /\ lo .. h = {}
      BY <1>1, <3>1 DEF LinkTo
    <3>3. FreeTo(m, NULL, lo, h)
      BY <3>1, <3>2 DEF FreeTo
    <3>4. QED  BY <1>1, <3>1, <3>3
  <2>4. QED  BY <1>4, <2>1, <2>2, <2>3 DEF Allocates
<1>6. ASSUME NEW k \in 0 .. n - 1, After(k) PROVE After(k + 1)
  <2>1. PICK hi, h : hi \in Page /\ hi = lo + k /\ h = lo + k - 1 /\ lo <= hi /\ hi <= last /\ Below(h, hi)
    BY <1>1, <1>2, Sizes DEF Below
  <2>2. PICK va : va = p + k * PAGE_SIZE
    OBVIOUS
  <2>3. FirstByte(va, hi)
    BY <1>1, <1>3, <2>1, <2>2 DEF FirstByte, PAGE_SIZE
  <2>4. PICK x, y : x = f[k] /\ y = f[k + 1]
    OBVIOUS
  <2>5. y = kfree(x, va) /\ IsCell(x) /\ Allocates(x, lo, h)
    BY <1>4, <1>6, <2>1, <2>2, <2>4
  <2>6. IsCell(y) /\ Allocates(y, lo, hi) /\ SameBut(x.mem, y.mem, {hi})
    BY <2>1, <2>3, <2>5, KfreeAdds
  <2>7. ASSUME NEW q \in Page, q < lo \/ q > last PROVE y.mem[q] = m[q]
    <3>1. q # hi
      BY <1>1, <2>1, <2>7, Sizes
    <3>2. x.mem[q] = m[q]
      BY <1>6, <2>4, <2>7
    <3>3. QED  BY <2>6, <3>1, <3>2 DEF SameBut
  <2>8. lo + (k + 1) - 1 = hi
    BY <1>1, <2>1
  <2>9. QED  BY <2>4, <2>6, <2>7, <2>8
<1>7. After(n)
  <2> HIDE DEF After
  <2>1. 0 \in T /\ \A k \in 0 .. n - 1 : k \in T => k + 1 \in T
    BY <1>5, <1>6
  <2>2. 0 .. n \subseteq T
    <3> HIDE DEF T
    <3>1. QED  BY <2>1, IntervalInduction
  <2>3. QED  BY <2>2
<1>8. lo + n - 1 = last
  BY <1>1, <1>2
<1>9. QED  BY <1>4, <1>7, <1>8

-----------------------------------------------------------------------------
(***************************************************************************)
(* Following the list of free pages.                                       *)
(***************************************************************************)
LEMMA LinkToIs ==
  ASSUME NEW lo \in Page, lo > 0, NEW q \in Int, q < 2 * ENTRIES
  PROVE  /\ q < lo => LinkTo(lo, q) = NULL
         /\ q >= lo => LinkTo(lo, q) # NULL /\ PageOf(LinkTo(lo, q)) = q
<1>1. lo \in Nat
  BY Sizes
<1>2. CASE q < lo
  BY <1>1, <1>2 DEF LinkTo
<1>3. CASE q >= lo
  <2>1. q \in Page /\ q # 0 /\ LinkTo(lo, q) = Entry(q, {})
    BY <1>1, <1>3, Sizes DEF LinkTo
  <2>2. QED  BY <1>1, <1>3, <2>1, WordFacts, FlagFacts
<1>4. QED  BY <1>1, <1>2, <1>3

LEMMA LinkIs ==
  ASSUME NEW lo, NEW hi, FreeTo(mem, freelist, lo, hi)
  PROVE  \A k \in 0 .. 2 * ENTRIES : Link[k] = LinkTo(lo, hi - k)
<1>1. lo \in Nat /\ lo \in Page /\ lo > 0 /\ hi \in Nat /\ hi < 2 * ENTRIES
  BY FreeToSizes, Sizes DEF FreeTo
<1>2. PICK last \in Nat : last = 2 * ENTRIES
  BY Sizes
<1> DEFINE Step(word) == IF word = NULL THEN NULL ELSE mem[PageOf(word)][0]
           Is(f) == f = [k \in 0 .. last |-> IF k = 0 THEN freelist ELSE Step(f[k - 1])]
<1>3. ASSUME NEW k \in 0 .. last - 1 PROVE Step(LinkTo(lo, hi - k)) = LinkTo(lo, hi - (k + 1))
  <2>1. PICK q \in Int, r \in Int : q = hi - k /\ r = hi - (k + 1) /\ r = q - 1 /\ q < 2 * ENTRIES /\ r < 2 * ENTRIES
    <3>1. ENTRIES \in Nat /\ k \in Nat
      BY <1>2, Sizes
    <3>2. hi - k \in Int /\ hi - (k + 1) \in Int /\ hi - (k + 1) = (hi - k) - 1
      BY <1>1, <3>1
    <3>3. hi - k < 2 * ENTRIES /\ hi - (k + 1) < 2 * ENTRIES
      BY <1>1, <3>1
    <3>4. QED  BY <3>2, <3>3
  <2>2. CASE q < lo
    <3>1. r < lo
      BY <1>1, <2>1, <2>2
    <3>2. QED  BY <1>1, <2>1, <2>2, <3>1, LinkToIs
  <2>3. CASE q >= lo
    <3>1. LinkTo(lo, q) # NULL /\ PageOf(LinkTo(lo, q)) = q
      BY <1>1, <2>1, <2>3, LinkToIs
    <3>2. q \in lo .. hi
      BY <1>1, <2>1, <2>3
    <3>3. mem[q][0] = LinkTo(lo, q - 1)
      BY <3>2 DEF FreeTo
    <3>4. QED  BY <2>1, <3>1, <3>3
  <2>4. QED  BY <1>1, <2>1, <2>2, <2>3
<1> DEFINE g == [k \in 0 .. last |-> LinkTo(lo, hi - k)]
<1>4. Is(g)
  <2>1. ASSUME NEW k \in 0 .. last PROVE g[k] = IF k = 0 THEN freelist ELSE Step(g[k - 1])
    <3>1. CASE k = 0
      <4>1. g[k] = LinkTo(lo, hi)
        BY <1>1, <3>1
      <4>2. QED  BY <3>1, <4>1 DEF FreeTo
    <3>2. CASE k # 0
      <4>1. PICK j \in 0 .. last - 1 : j = k - 1 /\ j + 1 = k
        BY <1>2, <3>2
      <4>2. g[k - 1] = LinkTo(lo, hi - j) /\ g[k] = LinkTo(lo, hi - (j + 1))
        BY <1>2, <4>1
      <4>3. Step(LinkTo(lo, hi - j)) = LinkTo(lo, hi - (j + 1))
        BY <1>3
      <4> HIDE DEF Step, g
      <4>4. QED  BY <3>2, <4>2, <4>3
    <3>3. QED  BY <3>1, <3>2
  <2> HIDE DEF Step
  <2>2. QED  BY <2>1
<1> DEFINE f == CHOOSE h : Is(h)
<1>5. Is(f)
  <2> HIDE DEF Is, g
  <2> QED  BY <1>4
<1>6. Link = f
  BY <1>2 DEF Link
<1> DEFINE T == {k \in 0 .. last : Link[k] = LinkTo(lo, hi - k)}
<1>7. Link[0] = freelist /\ \A k \in 0 .. last - 1 : Link[k + 1] = Step(Link[k])
  <2> HIDE DEF Step, f
  <2>1. Link = [k \in 0 .. last |-> IF k = 0 THEN freelist ELSE Step(Link[k - 1])]
    BY <1>5, <1>6
  <2>2. QED  BY <2>1
<1> HIDE DEF Step
<1>8. 0 \in T
  BY <1>1, <1>2, <1>7 DEF FreeTo
<1>9. ASSUME NEW k \in 0 .. last - 1, k \in T PROVE k + 1 \in T
  BY <1>3, <1>7, <1>9
<1>10. 0 .. last \subseteq T
  <2> HIDE DEF T
  <2> QED  BY <1>8, <1>9, IntervalInduction
<1>11. QED  BY <1>2, <1>10

\* The list goes once through every free page.
LEMMA FreeIs ==
  ASSUME NEW lo, NEW hi, FreeTo(mem, freelist, lo, hi)
  PROVE  /\ Free = {q \in Page : lo <= q /\ q <= hi}
         /\ \A j, k \in OnList : PageOf(Link[j]) = PageOf(Link[k]) => j = k
<1>1. lo \in Nat /\ lo \in Page /\ lo > 0 /\ hi \in Nat /\ hi < 2 * ENTRIES /\ ENTRIES \in Nat
  BY FreeToSizes, Sizes DEF FreeTo
<1>2. ASSUME NEW k \in 0 .. 2 * ENTRIES
      PROVE  (hi - k < lo => Link[k] = NULL) /\ (hi - k >= lo => Link[k] # NULL /\ PageOf(Link[k]) = hi - k)
  <2>1. PICK q \in Int : q = hi - k /\ q < 2 * ENTRIES
    BY <1>1
  <2>2. Link[k] = LinkTo(lo, q)
    BY <2>1, LinkIs
  <2>3. QED  BY <1>1, <2>1, <2>2, LinkToIs
<1>3. \A k \in OnList : k \in Nat /\ hi - k >= lo /\ PageOf(Link[k]) = hi - k
  <2>1. ASSUME NEW k \in 0 .. 2 * ENTRIES, Link[k] # NULL PROVE hi - k >= lo
    BY <1>1, <1>2, <2>1
  <2>2. QED  BY <1>1, <1>2, <2>1 DEF OnList
<1>4. \A j, k \in OnList : PageOf(Link[j]) = PageOf(Link[k]) => j = k
  BY <1>1, <1>3
<1>5. ASSUME NEW q \in Page, lo <= q, q <= hi PROVE q \in Free
  <2>1. PICK k \in 0 .. 2 * ENTRIES : k = hi - q
    BY <1>1, <1>5, Sizes
  <2>2. hi - k = q /\ hi - k >= lo
    BY <1>1, <1>5, <2>1, Sizes
  <2>3. k \in OnList /\ PageOf(Link[k]) = q
    BY <1>2, <2>2 DEF OnList
  <2>4. QED  BY <2>3 DEF Free
<1>6. ASSUME NEW q \in Free PROVE q \in Page /\ lo <= q /\ q <= hi
  <2>1. PICK k \in OnList : q = PageOf(Link[k])
    BY DEF Free
  <2>2. QED  BY <1>1, <1>3, <2>1, Sizes
<1>7. QED  BY <1>4, <1>5, <1>6

-----------------------------------------------------------------------------
(***************************************************************************)
(* The invariant.                                                          *)
(***************************************************************************)
\* The process p has a directory of its own.
HasTables(e, pt, p) == pt[p] # NULL /\ (e = "8.UserProcess" => p = 1)

SpaceIn(e, m, pt, use, own, p) ==
  \E d \in Page : pt[p] = Entry(d, {}) /\ Space(e, m, d, use, p, own[p])

UsesIn(e, pt, own, p) == IF HasTables(e, pt, p) THEN Uses(e, p, own[p]) ELSE {}

AllUses(e, pt, own) == UsesIn(e, pt, own, 0) \cup UsesIn(e, pt, own, 1)

\* own[p] are the addresses that p has pages for.
Owns(e, pt, own) ==
  \A p \in Proc :
    /\ ~HasTables(e, pt, p) => own[p] = {}
    /\ e = "6.MemPolicy" => own[p] \subseteq Demand
    /\ e = "8.UserProcess" /\ HasTables(e, pt, p) => own[p] = {STACK, CODE_START}

PoolIs(e, lo, last) ==
  /\ e = "6.MemPolicy" => lo = ENTRIES /\ last = 2 * ENTRIES - 1
  /\ e = "8.UserProcess" => lo \in {10, 11} /\ last = 10 + POOL - 1

Layout(e, m, list, pt, lo, hi, last, use, own) ==
  /\ e \in {"6.MemPolicy", "8.UserProcess"} /\ m \in Memory /\ FreeTo(m, list, lo, hi)
  /\ last \in Page /\ hi <= last /\ PoolIs(e, lo, last)
  /\ Owns(e, pt, own) /\ Assigned(use, hi, last, AllUses(e, pt, own))
  /\ \A p \in Proc : HasTables(e, pt, p) => SpaceIn(e, m, pt, use, own, p)

LEMMA PoolFacts ==
  ASSUME NEW e \in {"6.MemPolicy", "8.UserProcess"}, NEW lo, NEW last, PoolIs(e, lo, last)
  PROVE  lo \in Page /\ lo >= 10 /\ last \in Page /\ lo + 4 <= last
<1>1. CASE e = "6.MemPolicy"
  BY <1>1, Sizes DEF PoolIs
<1>2. CASE e = "8.UserProcess"
  BY <1>2, Sizes DEF PoolIs
<1>3. QED  BY <1>1, <1>2

LEMMA OwnSeparate ==
  ASSUME OwnEntries, NEW e \in {"6.MemPolicy", "8.UserProcess"}, NEW pt, NEW own, Owns(e, pt, own), NEW p \in Proc
  PROVE  Separate(e, own[p])
<1>1. CASE e = "6.MemPolicy"
  <2>1. own[p] \in SUBSET Demand
    BY <1>1 DEF Owns
  <2>2. IsFiniteSet(own[p]) /\ own[p] \subseteq Slots \X Slots
    BY <2>1, AddressFacts, FS_Subset
  <2>3. \A a, b \in own[p] : a[1] = b[1] => a = b
    BY <2>1 DEF OwnEntries
  <2>4. \A a \in own[p] : a[1] \notin KernelSlots(e)
    <3>1. \A a \in own[p] : a \in Slots \X Slots /\ a[1] >= 2
      BY <2>1, <2>2, AddressFacts
    <3>2. \A a \in own[p] : a[1] \in Nat /\ a[1] >= 2
      BY <3>1, Sizes
    <3>3. QED  BY <1>1, <3>2 DEF KernelSlots
  <2>5. QED  BY <2>2, <2>3, <2>4 DEF Separate
<1>2. CASE e = "8.UserProcess"
  <2>1. own[p] \in SUBSET {STACK, CODE_START}
    BY <1>2 DEF Owns
  <2>2. STACK \in Slots \X Slots /\ CODE_START \in Slots \X Slots /\ STACK[1] # CODE_START[1]
    <3>1. STACK[1] \in Nat /\ CODE_START[1] \in Nat
      BY AddressFacts, Sizes
    <3>2. QED  BY <3>1, AddressFacts
  <2>3. STACK[1] > 4 /\ CODE_START[1] > 4
    <3>1. STACK[1] \in Nat /\ X[1] \in Nat /\ CODE_START[1] \in Nat
      BY AddressFacts, Sizes
    <3>2. QED  BY <3>1, AddressFacts
  <2>4. STACK[1] \notin KernelSlots(e) /\ CODE_START[1] \notin KernelSlots(e)
    BY <1>2, <2>3 DEF KernelSlots, KernelEntries
  <2>5. IsFiniteSet({STACK, CODE_START})
    <3>1. IsFiniteSet({STACK} \cup {CODE_START})
      BY FS_Singleton, FS_AddElement
    <3>2. {STACK, CODE_START} = {STACK} \cup {CODE_START}
      OBVIOUS
    <3>3. QED  BY <3>1, <3>2
  <2>6. IsFiniteSet(own[p])
    BY <2>1, <2>5, FS_Subset
  <2>7. \A a \in own[p] : a = STACK \/ a = CODE_START
    BY <2>1
  <2>8. QED  BY <2>2, <2>4, <2>6, <2>7 DEF Separate
<1>3. QED  BY <1>1, <1>2

\* The uses are as many as the pages that have one.
LEMMA AssignedCount ==
  ASSUME NEW use, NEW hi \in Nat, NEW last \in Page, hi <= last, NEW W, Assigned(use, hi, last, W)
  PROVE  IsFiniteSet(W) /\ Cardinality(W) = last - hi
<1>1. last \in Nat /\ last < 2 * ENTRIES
  BY Sizes
<1>2. PICK S : S = hi + 1 .. last
  OBVIOUS
<1>3. \A q : q \in S <=> q \in Page /\ hi < q /\ q <= last
  BY <1>1, <1>2, Sizes
<1>4. IsFiniteSet(S) /\ Cardinality(S) = last - hi
  <2>1. PICK from \in Int : from = hi + 1
    OBVIOUS
  <2>2. last \in Int /\ S = from .. last
    BY <1>1, <1>2, <2>1
  <2>3. IsFiniteSet(from .. last) /\ Cardinality(from .. last) = IF from > last THEN 0 ELSE last - from + 1
    BY <2>2, FS_Interval
  <2>4. QED  BY <1>1, <2>1, <2>2, <2>3
<1>5. PICK f : f = [q \in S |-> use[q]]
  OBVIOUS
<1>6. f \in [S -> W] /\ \A a, b \in S : f[a] = f[b] => a = b
  BY <1>3, <1>5 DEF Assigned
<1>7. \A w \in W : \E a \in S : f[a] = w
  BY <1>3, <1>5 DEF Assigned
<1>8. QED  BY <1>4, <1>6, <1>7, SameSize

LEMMA UsesInCount ==
  ASSUME OwnEntries, NEW pt, NEW own, Owns("6.MemPolicy", pt, own), NEW p \in Proc
  PROVE  /\ IsFiniteSet(UsesIn("6.MemPolicy", pt, own, p))
         /\ IsFiniteSet(own[p]) /\ Cardinality(own[p]) \in Nat
         /\ HasTables("6.MemPolicy", pt, p) =>
              Cardinality(UsesIn("6.MemPolicy", pt, own, p)) = 3 + 2 * Cardinality(own[p])
         /\ ~HasTables("6.MemPolicy", pt, p) => Cardinality(UsesIn("6.MemPolicy", pt, own, p)) = 0
<1>1. PICK e \in {"6.MemPolicy", "8.UserProcess"} : e = "6.MemPolicy"
  OBVIOUS
<1>2. Separate(e, own[p])
  BY <1>1, OwnSeparate
<1>3. PICK o : o = own[p]
  OBVIOUS
<1>4. /\ Cardinality(o) \in Nat /\ IsFiniteSet(Uses(e, p, o))
      /\ Cardinality(TableSlots(e, o)) = Cardinality(o) + 2
      /\ Cardinality(Uses(e, p, o)) = 1 + Cardinality(TableSlots(e, o)) + Cardinality(o)
  BY <1>1, <1>2, <1>3, TablesCount, UsesCount
<1>5. Cardinality(Uses(e, p, o)) = 3 + 2 * Cardinality(o)
  BY <1>4
<1>6. IsFiniteSet(o)
  BY <1>2, <1>3 DEF Separate
<1>7. CASE HasTables(e, pt, p)
  BY <1>1, <1>3, <1>4, <1>5, <1>6, <1>7 DEF UsesIn
<1>8. CASE ~HasTables(e, pt, p)
  BY <1>1, <1>3, <1>4, <1>6, <1>8, FS_EmptySet DEF UsesIn
<1>9. QED  BY <1>7, <1>8

\* The uses of the two processes are different.
LEMMA UsesApart ==
  ASSUME NEW e, NEW own
  PROVE  \A w \in Uses(e, 0, own[0]) : w \notin Uses(e, 1, own[1])
<1>1. 0 # 1
  OBVIOUS
<1>2. QED  BY <1>1, UseFacts DEF Uses

\* There are always enough free pages for the next setup, and for the next address.
LEMMA RoomLeft ==
  ASSUME OwnEntries, EnoughPages, NEW m, NEW list, NEW pt, NEW lo, NEW hi, NEW last, NEW use, NEW own,
         Layout("6.MemPolicy", m, list, pt, lo, hi, last, use, own), NEW p \in Proc
  PROVE  /\ ~HasTables("6.MemPolicy", pt, p) => Room(lo, hi, 3)
         /\ HasTables("6.MemPolicy", pt, p) /\ (\E va \in Demand : va \notin own[p]) => Room(lo, hi, 2)
<1>1. PICK e \in {"6.MemPolicy", "8.UserProcess"} : e = "6.MemPolicy"
  OBVIOUS
<1>2. /\ FreeTo(m, list, lo, hi) /\ last \in Page /\ hi <= last /\ PoolIs(e, lo, last)
      /\ Owns(e, pt, own) /\ Assigned(use, hi, last, AllUses(e, pt, own))
  BY <1>1 DEF Layout
<1>3. hi \in Nat /\ lo = ENTRIES /\ last = 2 * ENTRIES - 1 /\ ENTRIES \in Nat
  BY <1>1, <1>2, FreeToSizes, Sizes DEF PoolIs
<1>4. PICK D \in Nat : D = Cardinality(Demand) /\ 6 + 4 * D <= ENTRIES
  BY AddressFacts, FS_CardinalityType DEF EnoughPages
<1>5. \A q \in Proc : /\ IsFiniteSet(UsesIn(e, pt, own, q)) /\ IsFiniteSet(own[q]) /\ Cardinality(own[q]) \in Nat
                      /\ HasTables(e, pt, q) => Cardinality(UsesIn(e, pt, own, q)) = 3 + 2 * Cardinality(own[q])
                      /\ ~HasTables(e, pt, q) => Cardinality(UsesIn(e, pt, own, q)) = 0
  BY <1>1, <1>2, UsesInCount
<1>6. PICK c0 \in Nat, c1 \in Nat : c0 = Cardinality(own[0]) /\ c1 = Cardinality(own[1])
  BY <1>5 DEF Proc
<1>7. PICK u0 \in Nat, u1 \in Nat : /\ u0 = Cardinality(UsesIn(e, pt, own, 0)) /\ u1 = Cardinality(UsesIn(e, pt, own, 1))
                                    /\ (u0 = 3 + 2 * c0 \/ u0 = 0) /\ (u1 = 3 + 2 * c1 \/ u1 = 0)
                                    /\ (~HasTables(e, pt, 0) => u0 = 0) /\ (~HasTables(e, pt, 1) => u1 = 0)
  <2>1. PICK x, y : x = Cardinality(UsesIn(e, pt, own, 0)) /\ y = Cardinality(UsesIn(e, pt, own, 1))
    OBVIOUS
  <2>2. IsFiniteSet(UsesIn(e, pt, own, 0)) /\ IsFiniteSet(UsesIn(e, pt, own, 1))
    BY <1>5 DEF Proc
  <2>3. x \in Nat /\ y \in Nat
    BY <2>1, <2>2, FS_CardinalityType
  <2>4. (x = 3 + 2 * c0 \/ x = 0) /\ (~HasTables(e, pt, 0) => x = 0)
    BY <1>5, <1>6, <2>1 DEF Proc
  <2>5. (y = 3 + 2 * c1 \/ y = 0) /\ (~HasTables(e, pt, 1) => y = 0)
    BY <1>5, <1>6, <2>1 DEF Proc
  <2>6. QED  BY <2>1, <2>3, <2>4, <2>5
<1>8. u0 + u1 = last - hi
  <2>1. Cardinality(AllUses(e, pt, own)) = last - hi
    BY <1>2, <1>3, AssignedCount
  <2>2. \A w \in UsesIn(e, pt, own, 0) : w \notin UsesIn(e, pt, own, 1)
    BY UsesApart DEF UsesIn
  <2>3. IsFiniteSet(UsesIn(e, pt, own, 0)) /\ IsFiniteSet(UsesIn(e, pt, own, 1))
    BY <1>5 DEF Proc
  <2>4. Cardinality(AllUses(e, pt, own)) = Cardinality(UsesIn(e, pt, own, 0)) + Cardinality(UsesIn(e, pt, own, 1))
    BY <2>2, <2>3, DisjointSizes DEF AllUses
  <2>5. QED  BY <1>7, <2>1, <2>4
<1>9. \A q \in Proc : Cardinality(own[q]) <= D /\ ((\E va \in Demand : va \notin own[q]) => Cardinality(own[q]) # D)
  <2>1. ASSUME NEW q \in Proc
        PROVE  Cardinality(own[q]) <= D /\ ((\E va \in Demand : va \notin own[q]) => Cardinality(own[q]) # D)
    <3>1. own[q] \in SUBSET Demand
      BY <1>1, <1>2 DEF Owns
    <3>2. Cardinality(own[q]) <= Cardinality(Demand) /\ (Cardinality(Demand) = Cardinality(own[q]) => Demand = own[q])
      BY <3>1, AddressFacts, FS_Subset
    <3>3. QED  BY <1>4, <3>2
  <2>2. QED  BY <2>1
<1>10. c0 <= D /\ c1 <= D
  BY <1>6, <1>9 DEF Proc
<1>11. ASSUME ~HasTables(e, pt, p) PROVE Room(lo, hi, 3)
  <2>1. u0 = 0 \/ u1 = 0
    BY <1>7, <1>11 DEF Proc
  <2>2. u0 <= 3 + 2 * D /\ u1 <= 3 + 2 * D
    BY <1>7, <1>10
  <2>3. u0 + u1 <= 3 + 2 * D
    BY <2>1, <2>2
  <2>4. QED  BY <1>3, <1>4, <1>8, <2>3 DEF Room
<1>12. ASSUME NEW va \in Demand, va \notin own[p] PROVE Room(lo, hi, 2)
  <2>1. (c0 # D /\ p = 0) \/ (c1 # D /\ p = 1)
    BY <1>6, <1>9, <1>12 DEF Proc
  <2>2. c0 + c1 <= 2 * D - 1
    BY <1>10, <2>1
  <2>3. u0 <= 3 + 2 * c0 /\ u1 <= 3 + 2 * c1
    BY <1>7
  <2>4. u0 + u1 <= 6 + 2 * (2 * D - 1)
    BY <2>2, <2>3
  <2>5. QED  BY <1>3, <1>4, <1>8, <2>4 DEF Room
<1>13. QED  BY <1>1, <1>11, <1>12

-----------------------------------------------------------------------------
(***************************************************************************)
(* What the invariant says of the other process when one stores, takes     *)
(* pages or is created.                                                    *)
(***************************************************************************)
\* The pages Q are free, or pages of addresses, or the directory of p.
Touches(use, Q, p) ==
  \A q \in Q : use[q] = Nothing \/ use[q] = DirectoryUse(p) \/ \E r, i : use[q] = PageUse(r, i)

LEMMA OthersAgree ==
  ASSUME NEW use, NEW Q, NEW p, Touches(use, Q, p), NEW m, NEW n, SameBut(m, n, Q), NEW r, r # p
  PROVE  Agree(m, n, use, r)
<1>1. ASSUME NEW q \in Page, use[q] = DirectoryUse(r) \/ \E i \in Slots : use[q] = TableUse(r, i) PROVE q \notin Q
  BY <1>1, UseFacts DEF Touches
<1>2. QED  BY <1>1 DEF Agree, SameBut

LEMMA OtherSpace ==
  ASSUME NEW e, NEW m, NEW pt, NEW use, NEW own, NEW r, SpaceIn(e, m, pt, use, own, r), own[r] \subseteq Slots \X Slots,
         NEW p, r # p, NEW Q, Touches(use, Q, p), NEW n, SameBut(m, n, Q), NEW new, Extends(use, new),
         NEW pt2, pt2[r] = pt[r], NEW own2, own2[r] = own[r]
  PROVE  SpaceIn(e, n, pt2, new, own2, r)
<1>1. PICK d \in Page : pt[r] = Entry(d, {}) /\ Space(e, m, d, use, r, own[r])
  BY DEF SpaceIn
<1>2. Agree(m, n, use, r)
  BY OthersAgree
<1>3. PICK o : o = own[r]
  OBVIOUS
<1>4. Space(e, n, d, new, r, o)
  BY <1>1, <1>2, <1>3, SpaceStays
<1>5. QED  BY <1>1, <1>3, <1>4 DEF SpaceIn

LEMMA ExtendsSelf == ASSUME NEW use PROVE Extends(use, use)
  BY DEF Extends

\* A store changes a page of an address.
LEMMA LayoutStays ==
  ASSUME OwnEntries, NEW e, NEW m, NEW list, NEW pt, NEW lo, NEW hi, NEW last, NEW use, NEW own,
         Layout(e, m, list, pt, lo, hi, last, use, own),
         NEW r \in Page, NEW p, NEW i, use[r] = PageUse(p, i), NEW n \in Memory, SameBut(m, n, {r})
  PROVE  Layout(e, n, list, pt, lo, hi, last, use, own) /\ r > hi
<1>1. /\ e \in {"6.MemPolicy", "8.UserProcess"} /\ FreeTo(m, list, lo, hi)
      /\ Owns(e, pt, own) /\ Assigned(use, hi, last, AllUses(e, pt, own))
      /\ \A q \in Proc : HasTables(e, pt, q) => SpaceIn(e, m, pt, use, own, q)
  BY DEF Layout
<1>2. use[r] # Nothing
  BY UseFacts
<1>3. hi < r
  BY <1>1, <1>2 DEF Assigned
<1>4. r > hi
  BY <1>1, <1>3, FreeToSizes, Sizes
<1>5. FreeTo(n, list, lo, hi)
  BY <1>1, <1>4, FreeStays
<1>6. PICK nobody : nobody = Nobody
  OBVIOUS
<1>7. Touches(use, {r}, nobody)
  BY DEF Touches
<1>8. ASSUME NEW q \in Proc, HasTables(e, pt, q) PROVE SpaceIn(e, n, pt, use, own, q)
  <2>1. q # nobody
    BY <1>6 DEF Proc, Nobody
  <2>2. own[q] \subseteq Slots \X Slots
    BY <1>1, OwnSeparate DEF Separate
  <2>3. SpaceIn(e, m, pt, use, own, q)
    BY <1>1, <1>8
  <2>4. QED  BY <1>7, <2>1, <2>2, <2>3, ExtendsSelf, OtherSpace
<1>9. QED  BY <1>4, <1>5, <1>8 DEF Layout

-----------------------------------------------------------------------------
(***************************************************************************)
(* A page fault: the address va gets the table q and the page r.           *)
(***************************************************************************)
LEMMA WithWordAt ==
  ASSUME NEW words, NEW k \in Slots, NEW word
  PROVE  /\ WithWord(words, k, word)[k] = word
         /\ \A i \in Slots : i # k => WithWord(words, k, word)[i] = words[i]
  BY DEF WithWord

LEMMA SpaceGrows ==
  ASSUME NEW e, NEW m, NEW d, NEW use, NEW p, NEW own, Space(e, m, d, use, p, own), Separate(e, own),
         e = "6.MemPolicy",
         NEW va \in Slots \X Slots, va[1] \notin KernelSlots(e), \A a \in own : a[1] # va[1],
         NEW q \in Page, NEW r \in Page, use[q] = Nothing, use[r] = Nothing,
         NEW n, SameBut(m, n, {d, q, r}), n[q] = OneWord(va[2], Entry(r, USER)),
         n[d] = WithWord(m[d], va[1], Entry(q, USER)),
         NEW new, Extends(use, new), new[q] = TableUse(p, va[1]), new[r] = PageUse(p, va[1])
  PROVE  Space(e, n, d, new, p, own \cup {va})
<1>1. d \in Page /\ use[d] = DirectoryUse(p) /\ new[d] = DirectoryUse(p)
  BY UseFacts DEF Space, Extends
<1>2. va[1] \in Slots /\ va[2] \in Slots /\ 0 \in Slots /\ 1 \in Slots /\ va[1] # 0 /\ va[1] # 1
  <2>1. 0 \in Slots /\ 1 \in Slots
    BY Sizes
  <2>2. QED  BY <2>1 DEF KernelSlots
<1>3. n[d][va[1]] = Entry(q, USER) /\ \A i \in Slots : i # va[1] => n[d][i] = m[d][i]
  BY <1>2, WithWordAt
<1>4. \A t \in Page : use[t] # Nothing /\ t # d => n[t] = m[t] /\ new[t] = use[t]
  BY DEF SameBut, Extends
<1>5. ASSUME NEW a \in own PROVE Leading(n, d, new, p, a)
  <2>1. Leading(m, d, use, p, a) /\ a \in Slots \X Slots /\ a[1] # va[1]
    BY DEF Space, Separate
  <2>2. PICK t, g \in Page : Leads(m, d, a, t, g) /\ use[t] = TableUse(p, a[1]) /\ use[g] = PageUse(p, a[1])
    BY <2>1 DEF Leading
  <2>3. n[d][a[1]] = m[d][a[1]]
    BY <1>3, <2>1
  <2>4. t # d /\ g # d /\ use[t] # Nothing /\ use[g] # Nothing
    BY <1>1, <2>2, UseFacts
  <2>5. n[t] = m[t] /\ new[t] = use[t] /\ new[g] = use[g]
    BY <1>4, <2>4
  <2>6. Leads(n, d, a, t, g)
    BY <2>2, <2>3, <2>5 DEF Leads
  <2>7. QED  BY <2>2, <2>5, <2>6 DEF Leading
<1>6. Leading(n, d, new, p, va)
  <2>1. Leads(n, d, va, q, r)
    BY <1>3 DEF Leads
  <2>2. QED  BY <2>1 DEF Leading
<1>7. ASSUME NEW k \in {0, 1} PROVE Identity(n, d, new, p, k)
  <2>1. Identity(m, d, use, p, k)
    BY DEF Space, KernelIn
  <2>2. PICK t \in Page : m[d][k] = Entry(t, KERNEL) /\ m[t] = IdentityTable(k) /\ use[t] = TableUse(p, k)
    BY <2>1 DEF Identity
  <2>3. n[d][k] = m[d][k]
    BY <1>2, <1>3
  <2>4. n[t] = m[t] /\ new[t] = use[t]
    BY <1>1, <1>4, <2>2, UseFacts
  <2>5. QED  BY <2>2, <2>3, <2>4 DEF Identity
<1>8. KernelIn(e, n, d, new, p)
  BY <1>7 DEF KernelIn
<1>9. ASSUME NEW i \in Slots, i \notin KernelSlots(e) PROVE n[d][i] = NULL \/ \E a \in own \cup {va} : a[1] = i
  <2>1. CASE i = va[1]
    BY <2>1
  <2>2. CASE i # va[1]
    <3>1. n[d][i] = m[d][i]
      BY <1>3, <2>2
    <3>2. m[d][i] = NULL \/ \E a \in own : a[1] = i
      BY <1>9 DEF Space
    <3>3. QED  BY <3>1, <3>2
  <2>3. QED  BY <2>1, <2>2
<1>10. QED  BY <1>1, <1>5, <1>6, <1>8, <1>9 DEF Space

Grown(own, p, va) == [q \in Proc |-> IF q = p THEN own[q] \cup {va} ELSE own[q]]

LEMMA UsesGrow ==
  ASSUME NEW pt, NEW own, NEW p \in Proc, HasTables("6.MemPolicy", pt, p), NEW va
  PROVE  AllUses("6.MemPolicy", pt, Grown(own, p, va)) =
           (AllUses("6.MemPolicy", pt, own) \cup {TableUse(p, va[1])}) \cup {PageUse(p, va[1])}
<1>1. PICK e : e = "6.MemPolicy"
  OBVIOUS
<1>2. PICK o : o = Grown(own, p, va)
  OBVIOUS
<1>3. o[p] = own[p] \cup {va} /\ \A q \in Proc : q # p => o[q] = own[q]
  BY <1>2 DEF Grown
<1>4. TableSlots(e, o[p]) = TableSlots(e, own[p]) \cup {va[1]}
  BY <1>3 DEF TableSlots
<1>5. Uses(e, p, o[p]) = (Uses(e, p, own[p]) \cup {TableUse(p, va[1])}) \cup {PageUse(p, va[1])}
  BY <1>3, <1>4 DEF Uses
<1>6. UsesIn(e, pt, o, p) = (UsesIn(e, pt, own, p) \cup {TableUse(p, va[1])}) \cup {PageUse(p, va[1])}
  BY <1>1, <1>5 DEF UsesIn
<1>7. \A q \in Proc : q # p => UsesIn(e, pt, o, q) = UsesIn(e, pt, own, q)
  BY <1>3 DEF UsesIn
<1>8. CASE p = 0
  <2>1. UsesIn(e, pt, o, 1) = UsesIn(e, pt, own, 1)
    BY <1>7, <1>8 DEF Proc
  <2>2. QED  BY <1>1, <1>2, <1>6, <1>8, <2>1 DEF AllUses
<1>9. CASE p = 1
  <2>1. UsesIn(e, pt, o, 0) = UsesIn(e, pt, own, 0)
    BY <1>7, <1>9 DEF Proc
  <2>2. QED  BY <1>1, <1>2, <1>6, <1>9, <2>1 DEF AllUses
<1>10. QED  BY <1>8, <1>9 DEF Proc

LEMMA UsesNew ==
  ASSUME NEW e, NEW pt, NEW own, NEW p \in Proc, NEW i, i \notin TableSlots(e, own[p])
  PROVE  TableUse(p, i) \notin AllUses(e, pt, own) /\ PageUse(p, i) \notin AllUses(e, pt, own)
<1>1. \A va \in own[p] : va[1] # i
  BY DEF TableSlots
<1>2. \A q : q # p => TableUse(p, i) \notin Uses(e, q, own[q]) /\ PageUse(p, i) \notin Uses(e, q, own[q])
  BY UseFacts DEF Uses
<1>3. TableUse(p, i) \notin Uses(e, p, own[p]) /\ PageUse(p, i) \notin Uses(e, p, own[p])
  BY <1>1, UseFacts DEF Uses
<1>4. QED  BY <1>2, <1>3 DEF AllUses, UsesIn, Proc

\* The pages of addresses stay what they are, and the addresses that get one find in it
\* what they would have found.
Keeps(m, n, use, new, own, own2) ==
  /\ Extends(use, new)
  /\ \A p \in Proc :
       /\ own[p] \subseteq own2[p]
       /\ \A r \in Page, i \in Slots : use[r] = PageUse(p, i) => n[r] = m[r]
       /\ \A va \in own2[p] : va \notin own[p] =>
            \E r \in Page : new[r] = PageUse(p, va[1]) /\ n[r][0] = First(va)

LEMMA FaultLayout ==
  ASSUME OwnEntries, NEW e, e = "6.MemPolicy",
         NEW m, NEW list, NEW pt, NEW lo, NEW hi, NEW last, NEW use, NEW own,
         Layout(e, m, list, pt, lo, hi, last, use, own), Room(lo, hi, 2),
         NEW p \in Proc, HasTables(e, pt, p), NEW va \in Demand, va \notin own[p],
         NEW d \in Page, pt[p] = Entry(d, {}), NEW a, Below(a, hi), NEW c, Below(c, a),
         NEW s, NEW t, s.mem = m, Maps(s, t, d, va[1], va[2], hi, a), Allocates(t, lo, c),
         NEW new, new = For(For(use, hi, TableUse(p, va[1])), a, PageUse(p, va[1]))
  PROVE  /\ Layout(e, t.mem, t.freelist, pt, lo, c, last, new, Grown(own, p, va))
         /\ Keeps(m, t.mem, use, new, own, Grown(own, p, va))
<1>1. /\ e \in {"6.MemPolicy", "8.UserProcess"} /\ FreeTo(m, list, lo, hi) /\ last \in Page /\ hi <= last /\ PoolIs(e, lo, last)
      /\ Owns(e, pt, own) /\ Assigned(use, hi, last, AllUses(e, pt, own))
      /\ \A q \in Proc : HasTables(e, pt, q) => SpaceIn(e, m, pt, use, own, q)
  BY DEF Layout
<1>2. /\ lo \in Nat /\ hi \in Nat /\ last \in Nat /\ a \in Nat /\ hi \in Page /\ a \in Page /\ hi # a /\ a <= last /\ c <= last
  <2>1. lo \in Nat /\ hi \in Nat /\ hi < 2 * ENTRIES /\ lo > 0 /\ last \in Nat
    BY <1>1, FreeToSizes, Sizes
  <2>2. lo <= hi - 1 /\ a = hi - 1 /\ c = a - 1
    BY <2>1 DEF Room, Below
  <2>3. hi \in Page /\ a \in Page
    BY <2>1, <2>2, Sizes
  <2>4. QED  BY <1>1, <2>1, <2>2, <2>3
<1>3. PICK i : i = va[1]
  OBVIOUS
<1>4. Separate(e, own[p])
  BY <1>1, OwnSeparate
<1>5. va \in Slots \X Slots /\ va[1] >= 2 /\ i \in Nat /\ i >= 2
  <2>1. va \in Slots \X Slots /\ va[1] >= 2
    BY AddressFacts
  <2>2. QED  BY <1>3, <2>1, Sizes
<1>6. \A b \in own[p] : b[1] # i
  <2>1. own[p] \subseteq Demand
    BY <1>1 DEF Owns
  <2>2. QED  BY <1>3, <2>1 DEF OwnEntries
<1>7. i \notin KernelSlots(e) /\ i \notin TableSlots(e, own[p])
  BY <1>5, <1>6 DEF KernelSlots, TableSlots
<1>8. PICK W : W = AllUses(e, pt, own)
  OBVIOUS
<1>9. TableUse(p, i) \notin W /\ PageUse(p, i) \notin W \cup {TableUse(p, i)}
  BY <1>7, <1>8, UsesNew, UseFacts
<1>10. PICK mid : mid = For(use, hi, TableUse(p, i))
  OBVIOUS
<1>11. TableUse(p, i) # Nothing /\ PageUse(p, i) # Nothing
  BY UseFacts
<1>12. Assigned(use, hi, last, W) /\ Assigned(mid, a, last, W \cup {TableUse(p, i)})
  <2>1. Assigned(use, hi, last, W)
    BY <1>1, <1>8
  <2>2. QED  BY <1>1, <1>2, <1>9, <1>10, <1>11, <2>1, AssignedMore
<1>13. new = For(mid, a, PageUse(p, i))
  BY <1>3, <1>10
<1>14. Assigned(new, c, last, (W \cup {TableUse(p, i)}) \cup {PageUse(p, i)})
  BY <1>2, <1>9, <1>11, <1>12, <1>13, AssignedMore
<1>15. Extends(use, mid) /\ mid[hi] = TableUse(p, i)
  BY <1>2, <1>10, <1>12, ExtendsSelf, ForExtends
<1>16. Extends(use, new) /\ new[a] = PageUse(p, i)
  BY <1>2, <1>12, <1>13, <1>15, ForExtends
<1>17. new[hi] = TableUse(p, i)
  BY <1>2, <1>13, <1>15 DEF For
<1>18. use[hi] = Nothing /\ use[a] = Nothing
  <2>1. ~(hi < hi) /\ ~(hi < a)
    BY <1>2 DEF Below
  <2>2. QED  BY <1>2, <1>12, <2>1 DEF Assigned
<1>19. PICK n : n = t.mem
  OBVIOUS
<1>20. /\ SameBut(m, n, {d, hi, a}) /\ n[hi] = OneWord(va[2], Entry(a, USER))
       /\ n[d] = WithWord(m[d], va[1], Entry(hi, USER))
  BY <1>19 DEF Maps
<1>21. Space(e, m, d, use, p, own[p])
  <2>1. PICK x \in Page : pt[p] = Entry(x, {}) /\ Space(e, m, x, use, p, own[p])
    BY <1>1 DEF SpaceIn
  <2>2. x = d
    BY <2>1, WordFacts, FlagFacts
  <2>3. QED  BY <2>1, <2>2
<1>22. PICK o : o = own[p]
  OBVIOUS
<1>23. Space(e, n, d, new, p, o \cup {va})
  <2>1. Space(e, m, d, use, p, o) /\ Separate(e, o) /\ \A b \in o : b[1] # va[1]
    BY <1>3, <1>4, <1>6, <1>21, <1>22
  <2>2. new[hi] = TableUse(p, va[1]) /\ new[a] = PageUse(p, va[1]) /\ va[1] \notin KernelSlots(e)
    BY <1>3, <1>7, <1>16, <1>17
  <2>3. QED  BY <1>2, <1>5, <1>16, <1>18, <1>20, <2>1, <2>2, SpaceGrows
<1>24. PICK own2 : own2 = Grown(own, p, va)
  OBVIOUS
<1>25. own2[p] = o \cup {va} /\ \A q \in Proc : q # p => own2[q] = own[q]
  BY <1>22, <1>24 DEF Grown
<1>26. SpaceIn(e, n, pt, new, own2, p)
  BY <1>23, <1>25 DEF SpaceIn
<1>27. ASSUME NEW q \in Proc, q # p, HasTables(e, pt, q) PROVE SpaceIn(e, n, pt, new, own2, q)
  <2>1. own[q] \subseteq Slots \X Slots
    BY <1>1, OwnSeparate DEF Separate
  <2>2. PICK Q : Q = {d, hi, a}
    OBVIOUS
  <2>3. use[d] = DirectoryUse(p)
    BY <1>21 DEF Space
  <2>4. Touches(use, Q, p)
    BY <1>18, <2>2, <2>3 DEF Touches
  <2>5. SpaceIn(e, m, pt, use, own, q) /\ SameBut(m, n, Q) /\ own2[q] = own[q]
    BY <1>1, <1>20, <1>25, <1>27, <2>2
  <2>6. QED  BY <1>16, <1>27, <2>1, <2>4, <2>5, OtherSpace
<1>28. Owns(e, pt, own2)
  <2>1. ASSUME NEW q \in Proc PROVE (~HasTables(e, pt, q) => own2[q] = {}) /\ own2[q] \subseteq Demand
    <3>1. (~HasTables(e, pt, q) => own[q] = {}) /\ own[q] \subseteq Demand
      BY <1>1 DEF Owns
    <3>2. CASE q = p
      BY <1>22, <1>25, <3>1, <3>2
    <3>3. CASE q # p
      BY <1>25, <3>1, <3>3
    <3>4. QED  BY <3>2, <3>3
  <2>2. QED  BY <2>1 DEF Owns
<1>29. Assigned(new, c, last, AllUses(e, pt, own2))
  <2>1. AllUses(e, pt, own2) = (W \cup {TableUse(p, va[1])}) \cup {PageUse(p, va[1])}
    BY <1>8, <1>24, UsesGrow
  <2>2. QED  BY <1>3, <1>14, <2>1
<1>30. n \in Memory /\ FreeTo(n, t.freelist, lo, c)
  BY <1>19 DEF Allocates
<1>31. \A q \in Proc : HasTables(e, pt, q) => SpaceIn(e, n, pt, new, own2, q)
  BY <1>26, <1>27
<1>32. Layout(e, n, t.freelist, pt, lo, c, last, new, own2)
  BY <1>1, <1>2, <1>28, <1>29, <1>30, <1>31 DEF Layout
<1>33. Keeps(m, n, use, new, own, own2)
  <2>1. ASSUME NEW q \in Proc, NEW r \in Page, NEW j \in Slots, use[r] = PageUse(q, j) PROVE n[r] = m[r]
    <3>1. use[d] = DirectoryUse(p)
      BY <1>21 DEF Space
    <3>2. r # d /\ r # hi /\ r # a
      BY <1>18, <2>1, <3>1, UseFacts
    <3>3. QED  BY <1>20, <3>2 DEF SameBut
  <2>2. n[a][0] = First(va)
    <3>1. n[a] = ZeroPage /\ 0 \in Slots
      BY <1>19, Sizes DEF Maps
    <3>2. va # CODE_START
      BY AddressFacts
    <3>3. QED  BY <3>1, <3>2, ZeroPageTyped DEF First
  <2>3. ASSUME NEW q \in Proc
        PROVE  own[q] \subseteq own2[q] /\ \A b \in own2[q] : b \notin own[q] => q = p /\ b = va
    BY <1>22, <1>25
  <2>4. new[a] = PageUse(p, va[1])
    BY <1>3, <1>16
  <2>5. QED  BY <1>2, <1>16, <2>1, <2>2, <2>3, <2>4 DEF Keeps
<1>34. QED  BY <1>19, <1>24, <1>32, <1>33

-----------------------------------------------------------------------------
(***************************************************************************)
(* A process of 6.MemPolicy is created.                                    *)
(***************************************************************************)
LEMMA NoUses ==
  ASSUME NEW e, NEW pt, NEW own, NEW p \in Proc, ~HasTables(e, pt, p)
  PROVE  DirectoryUse(p) \notin AllUses(e, pt, own) /\
         \A i : TableUse(p, i) \notin AllUses(e, pt, own) /\ PageUse(p, i) \notin AllUses(e, pt, own)
<1>1. \A q : q # p => /\ DirectoryUse(p) \notin Uses(e, q, own[q])
                      /\ \A i : TableUse(p, i) \notin Uses(e, q, own[q]) /\ PageUse(p, i) \notin Uses(e, q, own[q])
  BY UseFacts DEF Uses
<1>2. QED  BY <1>1 DEF AllUses, UsesIn, Proc

\* The directory of p is hi.
Directed(pt, p, hi) == [q \in Proc |-> IF q = p THEN Entry(hi, {}) ELSE pt[q]]

\* The others have the addresses that they had.
SameOwn(own, own2, p) == \A q \in Proc : q # p => own2[q] = own[q]

MayHave(e, p) == e = "8.UserProcess" => p = 1

\* With the process p, its uses join the others'.
LEMMA UsesJoin ==
  ASSUME NEW e, NEW pt, NEW own, NEW p \in Proc, ~HasTables(e, pt, p), NEW hi \in Page, hi # 0,
         NEW pt2, pt2 = Directed(pt, p, hi), MayHave(e, p), NEW own2, SameOwn(own, own2, p)
  PROVE  /\ AllUses(e, pt2, own2) = AllUses(e, pt, own) \cup Uses(e, p, own2[p])
         /\ HasTables(e, pt2, p) /\ pt2[p] = Entry(hi, {})
         /\ \A q \in Proc : q # p => pt2[q] = pt[q] /\ (HasTables(e, pt2, q) <=> HasTables(e, pt, q))
<1>1. pt2[p] = Entry(hi, {}) /\ \A q \in Proc : q # p => pt2[q] = pt[q]
  BY DEF Directed
<1>2. HasTables(e, pt2, p)
  <2>1. Entry(hi, {}) # NULL
    BY WordFacts, FlagFacts
  <2>2. QED  BY <1>1, <2>1 DEF HasTables, MayHave
<1>3. \A q \in Proc : q # p => pt2[q] = pt[q] /\ (HasTables(e, pt2, q) <=> HasTables(e, pt, q))
  BY <1>1 DEF HasTables
<1>4. UsesIn(e, pt2, own2, p) = Uses(e, p, own2[p]) /\ UsesIn(e, pt, own, p) = {}
  BY <1>2 DEF UsesIn
<1>5. \A q \in Proc : q # p => UsesIn(e, pt2, own2, q) = UsesIn(e, pt, own, q)
  BY <1>3 DEF UsesIn, SameOwn
<1>6. CASE p = 0
  <2>1. UsesIn(e, pt2, own2, 1) = UsesIn(e, pt, own, 1)
    BY <1>5, <1>6 DEF Proc
  <2>2. AllUses(e, pt2, own2) = AllUses(e, pt, own) \cup Uses(e, p, own2[p])
    BY <1>4, <1>6, <2>1 DEF AllUses
  <2>3. QED  BY <1>1, <1>2, <1>3, <2>2
<1>7. CASE p = 1
  <2>1. UsesIn(e, pt2, own2, 0) = UsesIn(e, pt, own, 0)
    BY <1>5, <1>7 DEF Proc
  <2>2. AllUses(e, pt2, own2) = AllUses(e, pt, own) \cup Uses(e, p, own2[p])
    BY <1>4, <1>7, <2>1 DEF AllUses
  <2>3. QED  BY <1>1, <1>2, <1>3, <2>2
<1>8. QED  BY <1>6, <1>7 DEF Proc

LEMMA SetupLayout ==
  ASSUME OwnEntries, NEW e, e = "6.MemPolicy",
         NEW m, NEW list, NEW pt, NEW lo, NEW hi, NEW last, NEW use, NEW own,
         Layout(e, m, list, pt, lo, hi, last, use, own), Room(lo, hi, 3),
         NEW p \in Proc, ~HasTables(e, pt, p),
         NEW a, Below(a, hi), NEW b, Below(b, a), NEW c, Below(c, b),
         NEW t, Allocates(t, lo, c), SameBut(m, t.mem, {hi, a, b}),
         Holds(t.mem, hi, MemPolicyDirectory(a, b)),
         Holds(t.mem, a, IdentityTable(0)), Holds(t.mem, b, IdentityTable(1)),
         NEW new, new = For(For(For(use, hi, DirectoryUse(p)), a, TableUse(p, 0)), b, TableUse(p, 1)),
         NEW pt2, pt2 = Directed(pt, p, hi)
  PROVE  /\ Layout(e, t.mem, t.freelist, pt2, lo, c, last, new, own)
         /\ Keeps(m, t.mem, use, new, own, own)
<1>1. /\ e \in {"6.MemPolicy", "8.UserProcess"} /\ FreeTo(m, list, lo, hi) /\ last \in Page /\ hi <= last /\ PoolIs(e, lo, last)
      /\ Owns(e, pt, own) /\ Assigned(use, hi, last, AllUses(e, pt, own))
      /\ \A q \in Proc : HasTables(e, pt, q) => SpaceIn(e, m, pt, use, own, q)
  BY DEF Layout
<1>2. /\ lo \in Nat /\ hi \in Nat /\ last \in Nat /\ hi \in Page /\ a \in Page /\ b \in Page /\ hi # 0
      /\ hi # a /\ hi # b /\ a # b /\ a <= last /\ b <= last /\ c <= last /\ a < hi /\ b < hi
  <2>1. lo \in Nat /\ hi \in Nat /\ hi < 2 * ENTRIES /\ lo > 0 /\ last \in Nat
    BY <1>1, FreeToSizes, Sizes
  <2>2. lo + 2 <= hi /\ a = hi - 1 /\ b = hi - 2 /\ c = hi - 3
    BY <2>1 DEF Room, Below
  <2>3. hi \in Page /\ a \in Page /\ b \in Page
    BY <2>1, <2>2, Sizes
  <2>4. QED  BY <1>1, <2>1, <2>2, <2>3
<1>3. PICK W : W = AllUses(e, pt, own)
  OBVIOUS
<1>4. PICK w, x, y : w = DirectoryUse(p) /\ x = TableUse(p, 0) /\ y = TableUse(p, 1)
  OBVIOUS
<1>5. w # Nothing /\ x # Nothing /\ y # Nothing /\ w \notin W /\ x \notin W \cup {w} /\ y \notin (W \cup {w}) \cup {x}
  <2>1. w # Nothing /\ x # Nothing /\ y # Nothing /\ w # x /\ w # y /\ x # y
    BY <1>4, UseFacts
  <2>2. w \notin W /\ x \notin W /\ y \notin W
    BY <1>3, <1>4, NoUses
  <2>3. QED  BY <2>1, <2>2
<1>6. PICK one, two : one = For(use, hi, w) /\ two = For(one, a, x)
  OBVIOUS
<1>7. new = For(two, b, y)
  BY <1>4, <1>6
<1>8. Assigned(use, hi, last, W) /\ Assigned(one, a, last, W \cup {w})
  <2>1. Assigned(use, hi, last, W)
    BY <1>1, <1>3
  <2>2. QED  BY <1>1, <1>2, <1>5, <1>6, <2>1, AssignedMore
<1>9. Assigned(two, b, last, (W \cup {w}) \cup {x})
  BY <1>2, <1>5, <1>6, <1>8, AssignedMore
<1>10. Assigned(new, c, last, ((W \cup {w}) \cup {x}) \cup {y})
  BY <1>2, <1>5, <1>7, <1>9, AssignedMore
<1>11. Extends(use, one) /\ one[hi] = w
  BY <1>2, <1>6, <1>8, ExtendsSelf, ForExtends
<1>12. Extends(use, two) /\ two[a] = x
  BY <1>2, <1>6, <1>8, <1>11, ForExtends
<1>13. Extends(use, new) /\ new[b] = y
  BY <1>2, <1>7, <1>9, <1>12, ForExtends
<1>14. new[hi] = w /\ new[a] = x
  BY <1>2, <1>6, <1>7, <1>11, <1>12 DEF For
<1>15. use[hi] = Nothing /\ use[a] = Nothing /\ use[b] = Nothing
  <2>1. ~(hi < hi) /\ ~(hi < a) /\ ~(hi < b)
    BY <1>2 DEF Below
  <2>2. QED  BY <1>2, <1>8, <2>1 DEF Assigned
<1>16. PICK n : n = t.mem
  OBVIOUS
<1>17. /\ SameBut(m, n, {hi, a, b}) /\ n[hi] = MemPolicyDirectory(a, b)
       /\ n[a] = IdentityTable(0) /\ n[b] = IdentityTable(1)
  BY <1>16 DEF Holds
<1>18. own[p] = {}
  BY <1>1 DEF Owns
<1>19. Space(e, n, hi, new, p, {})
  <2>1. 0 \in Slots /\ 1 \in Slots
    BY Sizes
  <2>2. /\ n[hi][0] = Entry(a, KERNEL) /\ n[hi][1] = Entry(b, KERNEL)
        /\ \A i \in Slots : i \notin {0, 1} => n[hi][i] = NULL
    BY <1>17, <2>1 DEF MemPolicyDirectory
  <2>3. Identity(n, hi, new, p, 0)
    BY <1>2, <1>4, <1>14, <1>17, <2>2 DEF Identity
  <2>4. Identity(n, hi, new, p, 1)
    BY <1>2, <1>4, <1>13, <1>17, <2>2 DEF Identity
  <2>5. QED  BY <1>2, <1>4, <1>14, <2>2, <2>3, <2>4 DEF Space, KernelIn, KernelSlots
<1>20. /\ AllUses(e, pt2, own) = W \cup Uses(e, p, {})
       /\ HasTables(e, pt2, p) /\ pt2[p] = Entry(hi, {})
       /\ \A q \in Proc : q # p => pt2[q] = pt[q] /\ (HasTables(e, pt2, q) <=> HasTables(e, pt, q))
  <2>1. SameOwn(own, own, p) /\ MayHave(e, p)
    BY DEF SameOwn, MayHave
  <2>2. AllUses(e, pt2, own) = W \cup Uses(e, p, own[p])
    BY <1>2, <1>3, <2>1, UsesJoin
  <2>3. /\ HasTables(e, pt2, p) /\ pt2[p] = Entry(hi, {})
        /\ \A q \in Proc : q # p => pt2[q] = pt[q] /\ (HasTables(e, pt2, q) <=> HasTables(e, pt, q))
    BY <1>2, <1>3, <2>1, UsesJoin
  <2>4. QED  BY <1>18, <2>2, <2>3
<1>21. Uses(e, p, {}) = {w, x, y}
  <2>1. TableSlots(e, {}) = {0, 1}
    BY DEF TableSlots
  <2>2. QED  BY <1>4, <2>1 DEF Uses
<1>22. Assigned(new, c, last, AllUses(e, pt2, own))
  <2>1. AllUses(e, pt2, own) = ((W \cup {w}) \cup {x}) \cup {y}
    BY <1>20, <1>21
  <2>2. QED  BY <1>10, <2>1
<1>23. SpaceIn(e, n, pt2, new, own, p)
  BY <1>2, <1>18, <1>19, <1>20 DEF SpaceIn
<1>24. ASSUME NEW q \in Proc, q # p, HasTables(e, pt2, q) PROVE SpaceIn(e, n, pt2, new, own, q)
  <2>1. own[q] \subseteq Slots \X Slots
    BY <1>1, OwnSeparate DEF Separate
  <2>2. PICK Q : Q = {hi, a, b}
    OBVIOUS
  <2>3. Touches(use, Q, p)
    BY <1>15, <2>2 DEF Touches
  <2>4. SpaceIn(e, m, pt, use, own, q) /\ SameBut(m, n, Q) /\ pt2[q] = pt[q]
    BY <1>1, <1>17, <1>20, <1>24, <2>2
  <2>5. QED  BY <1>13, <1>24, <2>1, <2>3, <2>4, OtherSpace
<1>25. Owns(e, pt2, own)
  BY <1>1, <1>18, <1>20 DEF Owns
<1>26. n \in Memory /\ FreeTo(n, t.freelist, lo, c)
  BY <1>16 DEF Allocates
<1>27. \A q \in Proc : HasTables(e, pt2, q) => SpaceIn(e, n, pt2, new, own, q)
  BY <1>23, <1>24
<1>28. Layout(e, n, t.freelist, pt2, lo, c, last, new, own)
  BY <1>1, <1>2, <1>22, <1>25, <1>26, <1>27 DEF Layout
<1>29. Keeps(m, n, use, new, own, own)
  <2>1. ASSUME NEW q \in Proc, NEW r \in Page, NEW j \in Slots, use[r] = PageUse(q, j) PROVE n[r] = m[r]
    <3>1. r # hi /\ r # a /\ r # b
      BY <1>15, <2>1, UseFacts
    <3>2. QED  BY <1>17, <3>1 DEF SameBut
  <2>2. QED  BY <1>13, <2>1 DEF Keeps
<1>30. QED  BY <1>16, <1>28, <1>29

-----------------------------------------------------------------------------
(***************************************************************************)
(* The user process of 8.UserProcess is created.                           *)
(***************************************************************************)
\* The pages below the pool, SPEDE's among them, are what they were.
LowPages(m) == \A q \in Page : q < 10 => m[q] = FirstMemory[q]

LEMMA FirstMemoryIs ==
  /\ FirstMemory \in Memory /\ SPEDE_DIRECTORY \in Page
  /\ \A i \in KernelEntries : i \in Slots /\ SPEDE_TABLE + i \in Page
       /\ SPEDE_TABLE + i # SPEDE_DIRECTORY /\ SPEDE_TABLE + i < 7
  /\ \A i \in KernelEntries : FirstMemory[SPEDE_DIRECTORY][i] = Entry(SPEDE_TABLE + i, KERNEL)
  /\ \A i \in Slots : i \notin KernelEntries => FirstMemory[SPEDE_DIRECTORY][i] = NULL
  /\ \A q \in Page : q # SPEDE_DIRECTORY => FirstMemory[q] = ZeroPage
<1>1. SPEDE_DIRECTORY \in Page
  BY Sizes DEF SPEDE_DIRECTORY
<1>2. \A i \in KernelEntries : /\ i \in Slots /\ SPEDE_TABLE + i \in Page
                               /\ SPEDE_TABLE + i # SPEDE_DIRECTORY /\ SPEDE_TABLE + i < 7
  BY Sizes DEF SPEDE_TABLE, SPEDE_DIRECTORY, KernelEntries
<1>3. \A i \in KernelEntries : Entry(SPEDE_TABLE + i, KERNEL) \in Word
  BY <1>2, WordFacts, FlagFacts
<1>4. /\ \A i \in KernelEntries : FirstMemory[SPEDE_DIRECTORY][i] = Entry(SPEDE_TABLE + i, KERNEL)
      /\ \A i \in Slots : i \notin KernelEntries => FirstMemory[SPEDE_DIRECTORY][i] = NULL
  BY <1>1, <1>2 DEF FirstMemory
<1>5. \A q \in Page : q # SPEDE_DIRECTORY => FirstMemory[q] = ZeroPage
  BY DEF FirstMemory, ZeroPage
<1>6. FirstMemory \in Memory
  BY <1>3, WordFacts DEF FirstMemory, Memory
<1>7. QED  BY <1>1, <1>2, <1>4, <1>5, <1>6

\* Before that, every page of the pool is free.
LEMMA UserRoom ==
  ASSUME NEW e, e = "8.UserProcess",
         NEW m, NEW list, NEW pt, NEW lo, NEW hi, NEW last, NEW use, NEW own,
         Layout(e, m, list, pt, lo, hi, last, use, own), ~HasTables(e, pt, 1)
  PROVE  Room(lo, hi, 5) /\ AllUses(e, pt, own) = {} /\ lo >= 10
<1>1. /\ e \in {"6.MemPolicy", "8.UserProcess"} /\ FreeTo(m, list, lo, hi) /\ last \in Page /\ hi <= last
      /\ PoolIs(e, lo, last) /\ Assigned(use, hi, last, AllUses(e, pt, own))
  BY DEF Layout
<1>2. AllUses(e, pt, own) = {}
  BY DEF AllUses, UsesIn, HasTables
<1>3. lo \in Nat /\ hi \in Nat /\ last \in Nat
  BY <1>1, FreeToSizes, Sizes
<1>4. lo >= 10 /\ lo + 4 <= last
  BY <1>1, PoolFacts
<1>5. PICK W : W = AllUses(e, pt, own)
  OBVIOUS
<1>6. Cardinality(W) = last - hi
  BY <1>1, <1>3, <1>5, AssignedCount
<1>7. Cardinality(W) = 0
  BY <1>2, <1>5, FS_EmptySet
<1>8. Room(lo, hi, 5)
  BY <1>3, <1>4, <1>6, <1>7 DEF Room
<1>9. QED  BY <1>2, <1>4, <1>8

\* The user process gets its stack and its code.
UserOwn(own) == [p \in Proc |-> IF p = 1 THEN {STACK, CODE_START} ELSE own[p]]

\* What the directory of the user process says.
UserDirectory(m, a, c) ==
  WithWord(WithWord(KernelPart(m), STACK[1], Entry(a, USER)), CODE_START[1], Entry(c, USER))

LEMMA UserDirectoryIs ==
  ASSUME NEW m, NEW a, NEW c, LowPages(m), NEW words, words = UserDirectory(m, a, c)
  PROVE  /\ words[STACK[1]] = Entry(a, USER) /\ words[CODE_START[1]] = Entry(c, USER)
         /\ \A i \in KernelEntries : words[i] = Entry(SPEDE_TABLE + i, KERNEL)
         /\ \A i \in Slots : i \notin KernelEntries => words[i] = NULL \/ STACK[1] = i \/ CODE_START[1] = i
<1>1. /\ STACK[1] \in Slots /\ CODE_START[1] \in Slots /\ STACK[1] # CODE_START[1]
      /\ \A i \in KernelEntries : i # STACK[1] /\ i # CODE_START[1]
  <2>1. STACK[1] \in Nat /\ X[1] \in Nat /\ CODE_START[1] \in Nat
    BY AddressFacts, Sizes
  <2>2. STACK[1] > 4 /\ CODE_START[1] > 4 /\ STACK[1] # CODE_START[1]
    BY <2>1, AddressFacts
  <2>3. \A i \in KernelEntries : i # STACK[1] /\ i # CODE_START[1]
    BY <2>1, <2>2 DEF KernelEntries
  <2>4. QED  BY <2>2, <2>3, AddressFacts
<1>2. PICK mid : mid = WithWord(KernelPart(m), STACK[1], Entry(a, USER))
  OBVIOUS
<1>3. words = WithWord(mid, CODE_START[1], Entry(c, USER))
  BY <1>2 DEF UserDirectory
<1>4. mid[STACK[1]] = Entry(a, USER) /\ \A i \in Slots : i # STACK[1] => mid[i] = KernelPart(m)[i]
  BY <1>1, <1>2 DEF WithWord
<1>5. words[CODE_START[1]] = Entry(c, USER) /\ \A i \in Slots : i # CODE_START[1] => words[i] = mid[i]
  BY <1>1, <1>3 DEF WithWord
<1>6. m[SPEDE_DIRECTORY] = FirstMemory[SPEDE_DIRECTORY]
  <2>1. SPEDE_DIRECTORY < 10
    BY DEF SPEDE_DIRECTORY
  <2>2. QED  BY <2>1, FirstMemoryIs DEF LowPages
<1>7. /\ \A i \in KernelEntries : i \in Slots /\ KernelPart(m)[i] = Entry(SPEDE_TABLE + i, KERNEL)
      /\ \A i \in Slots : i \notin KernelEntries => KernelPart(m)[i] = NULL
  BY <1>6, FirstMemoryIs DEF KernelPart
<1>8. QED  BY <1>1, <1>4, <1>5, <1>7

LEMMA UserSpace ==
  ASSUME NEW m, LowPages(m), NEW n, NEW new, NEW hi \in Page, NEW a \in Page, NEW b \in Page, NEW c \in Page, NEW g \in Page,
         n[hi] = UserDirectory(m, a, c),
         n[a] = OneWord(STACK[2], Entry(b, USER)), n[c] = OneWord(CODE_START[2], Entry(g, USER)),
         new[hi] = DirectoryUse(1), new[a] = TableUse(1, STACK[1]), new[b] = PageUse(1, STACK[1]),
         new[c] = TableUse(1, CODE_START[1]), new[g] = PageUse(1, CODE_START[1])
  PROVE  Space("8.UserProcess", n, hi, new, 1, {STACK, CODE_START})
<1>1. PICK words : words = UserDirectory(m, a, c)
  OBVIOUS
<1>2. /\ words[STACK[1]] = Entry(a, USER) /\ words[CODE_START[1]] = Entry(c, USER)
      /\ \A i \in KernelEntries : words[i] = Entry(SPEDE_TABLE + i, KERNEL)
      /\ \A i \in Slots : i \notin KernelEntries => words[i] = NULL \/ STACK[1] = i \/ CODE_START[1] = i
  BY <1>1, UserDirectoryIs
<1>3. n[hi] = words
  BY <1>1
<1>4. Leads(n, hi, STACK, a, b) /\ Leads(n, hi, CODE_START, c, g)
  BY <1>2, <1>3 DEF Leads
<1>5. Leading(n, hi, new, 1, STACK) /\ Leading(n, hi, new, 1, CODE_START)
  BY <1>4 DEF Leading
<1>6. KernelIn("8.UserProcess", n, hi, new, 1)
  BY <1>2, <1>3 DEF KernelIn
<1>7. \A i \in Slots : i \notin KernelSlots("8.UserProcess") =>
        n[hi][i] = NULL \/ \E va \in {STACK, CODE_START} : va[1] = i
  BY <1>2, <1>3 DEF KernelSlots
<1>8. QED  BY <1>5, <1>6, <1>7 DEF Space

LEMMA UserLayout ==
  ASSUME OwnEntries, NEW e, e = "8.UserProcess",
         NEW m, NEW list, NEW pt, NEW lo, NEW hi, NEW last, NEW use, NEW own,
         Layout(e, m, list, pt, lo, hi, last, use, own), ~HasTables(e, pt, 1), LowPages(m),
         NEW a, Below(a, hi), NEW b, Below(b, a), NEW c, Below(c, b), NEW g, Below(g, c), NEW f, Below(f, g),
         NEW t, Allocates(t, lo, f), SameBut(m, t.mem, {hi, a, b, c, g}),
         Holds(t.mem, hi, UserDirectory(m, a, c)),
         Holds(t.mem, a, OneWord(STACK[2], Entry(b, USER))), Holds(t.mem, b, ZeroPage),
         Holds(t.mem, c, OneWord(CODE_START[2], Entry(g, USER))), Holds(t.mem, g, OneWord(0, CODE)),
         NEW one, one = For(For(use, hi, DirectoryUse(1)), a, TableUse(1, STACK[1])),
         NEW two, two = For(For(one, b, PageUse(1, STACK[1])), c, TableUse(1, CODE_START[1])),
         NEW new, new = For(two, g, PageUse(1, CODE_START[1])),
         NEW pt2, pt2 = Directed(pt, 1, hi)
  PROVE  /\ Layout(e, t.mem, t.freelist, pt2, lo, f, last, new, UserOwn(own))
         /\ Keeps(m, t.mem, use, new, own, UserOwn(own)) /\ LowPages(t.mem)
<1>1. /\ e \in {"6.MemPolicy", "8.UserProcess"} /\ FreeTo(m, list, lo, hi) /\ last \in Page /\ hi <= last /\ PoolIs(e, lo, last)
      /\ Owns(e, pt, own) /\ Assigned(use, hi, last, AllUses(e, pt, own))
  BY DEF Layout
<1>2. Room(lo, hi, 5) /\ AllUses(e, pt, own) = {} /\ lo >= 10
  BY UserRoom
<1>3. /\ lo \in Nat /\ hi \in Nat /\ last \in Nat /\ hi \in Page /\ a \in Page /\ b \in Page /\ c \in Page /\ g \in Page
      /\ hi # 0 /\ hi # a /\ hi # b /\ hi # c /\ hi # g /\ a # b /\ a # c /\ a # g /\ b # c /\ b # g /\ c # g
      /\ a <= last /\ b <= last /\ c <= last /\ g <= last /\ f <= last
      /\ hi >= 10 /\ a >= 10 /\ b >= 10 /\ c >= 10 /\ g >= 10 /\ a < hi /\ b < hi /\ c < hi /\ g < hi
  <2>1. lo \in Nat /\ hi \in Nat /\ hi < 2 * ENTRIES /\ lo > 0 /\ last \in Nat
    BY <1>1, FreeToSizes, Sizes
  <2>2. lo + 4 <= hi /\ a = hi - 1 /\ b = hi - 2 /\ c = hi - 3 /\ g = hi - 4 /\ f = hi - 5
    BY <1>2, <2>1 DEF Room, Below
  <2>3. hi \in Page /\ a \in Page /\ b \in Page /\ c \in Page /\ g \in Page
    BY <2>1, <2>2, Sizes
  <2>4. QED  BY <1>1, <1>2, <2>1, <2>2, <2>3
<1>4. PICK u, v, w, x, y : /\ u = DirectoryUse(1) /\ v = TableUse(1, STACK[1]) /\ w = PageUse(1, STACK[1])
                           /\ x = TableUse(1, CODE_START[1]) /\ y = PageUse(1, CODE_START[1])
  OBVIOUS
<1>5. /\ u # Nothing /\ v # Nothing /\ w # Nothing /\ x # Nothing /\ y # Nothing
      /\ u # v /\ u # w /\ u # x /\ u # y /\ v # w /\ v # x /\ v # y /\ w # x /\ w # y /\ x # y
  <2>1. STACK[1] # CODE_START[1]
    <3>1. STACK[1] \in Nat /\ CODE_START[1] \in Nat
      BY AddressFacts, Sizes
    <3>2. QED  BY <3>1, AddressFacts
  <2>2. QED  BY <1>4, <2>1, UseFacts
<1>6. PICK mid, late : mid = For(use, hi, u) /\ late = For(one, b, w)
  OBVIOUS
<1>7. one = For(mid, a, v) /\ two = For(late, c, x) /\ new = For(two, g, y)
  BY <1>4, <1>6
<1>8. PICK U, V, W, Z, A : U = {u} /\ V = U \cup {v} /\ W = V \cup {w} /\ Z = W \cup {x} /\ A = Z \cup {y}
  OBVIOUS
<1>9. v \notin U /\ w \notin V /\ x \notin W /\ y \notin Z
  BY <1>5, <1>8
<1>10. Assigned(use, hi, last, {}) /\ Assigned(mid, a, last, U)
  <2>1. Assigned(use, hi, last, {})
    BY <1>1, <1>2
  <2>2. Assigned(mid, a, last, {} \cup {u})
    BY <1>1, <1>3, <1>5, <1>6, <2>1, AssignedMore
  <2>3. QED  BY <1>8, <2>1, <2>2
<1>11. Assigned(one, b, last, V)
  BY <1>3, <1>5, <1>7, <1>8, <1>9, <1>10, AssignedMore
<1>12. Assigned(late, c, last, W)
  BY <1>3, <1>5, <1>6, <1>8, <1>9, <1>11, AssignedMore
<1>13. Assigned(two, g, last, Z)
  BY <1>3, <1>5, <1>7, <1>8, <1>9, <1>12, AssignedMore
<1>14. Assigned(new, f, last, A)
  BY <1>3, <1>5, <1>7, <1>8, <1>9, <1>13, AssignedMore
<1>15. Extends(use, mid)
  BY <1>3, <1>6, <1>10, ExtendsSelf, ForExtends
<1>16. Extends(use, one)
  BY <1>3, <1>7, <1>10, <1>15, ForExtends
<1>17. Extends(use, late)
  BY <1>3, <1>6, <1>11, <1>16, ForExtends
<1>18. Extends(use, two)
  BY <1>3, <1>7, <1>12, <1>17, ForExtends
<1>19. Extends(use, new)
  BY <1>3, <1>7, <1>13, <1>18, ForExtends
<1>20. new[hi] = u /\ new[a] = v /\ new[b] = w /\ new[c] = x /\ new[g] = y
  BY <1>3, <1>6, <1>7 DEF For
<1>21. PICK n : n = t.mem
  OBVIOUS
<1>22. /\ SameBut(m, n, {hi, a, b, c, g}) /\ n[hi] = UserDirectory(m, a, c) /\ n[b] = ZeroPage
       /\ n[a] = OneWord(STACK[2], Entry(b, USER)) /\ n[c] = OneWord(CODE_START[2], Entry(g, USER))
       /\ n[g] = OneWord(0, CODE)
  BY <1>21 DEF Holds
<1>23. Space("8.UserProcess", n, hi, new, 1, {STACK, CODE_START})
  BY <1>3, <1>4, <1>20, <1>22, UserSpace
<1>24. PICK own2 : own2 = UserOwn(own)
  OBVIOUS
<1>25. own2[1] = {STACK, CODE_START} /\ 1 \in Proc /\ \A q \in Proc : q # 1 => own2[q] = own[q]
  BY <1>24 DEF UserOwn, Proc
<1>26. /\ AllUses(e, pt2, own2) = Uses(e, 1, own2[1])
       /\ HasTables(e, pt2, 1) /\ pt2[1] = Entry(hi, {})
  <2>1. PICK p : p = 1
    OBVIOUS
  <2>2. SameOwn(own, own2, p) /\ MayHave(e, p) /\ p \in Proc /\ ~HasTables(e, pt, p) /\ pt2 = Directed(pt, p, hi)
    BY <1>25, <2>1 DEF SameOwn, MayHave
  <2>3. AllUses(e, pt2, own2) = AllUses(e, pt, own) \cup Uses(e, p, own2[p])
    BY <1>3, <2>2, UsesJoin
  <2>4. pt2[p] = Entry(hi, {}) /\ HasTables(e, pt2, p)
    <3>1. pt2[p] = Entry(hi, {})
      BY <2>2 DEF Directed
    <3>2. Entry(hi, {}) # NULL
      BY <1>3, WordFacts, FlagFacts
    <3>3. QED  BY <2>1, <3>1, <3>2 DEF HasTables
  <2>5. QED  BY <1>2, <2>1, <2>3, <2>4
<1>27. AllUses(e, pt2, own2) = A
  <2>1. TableSlots(e, own2[1]) = {STACK[1], CODE_START[1]}
    BY <1>25 DEF TableSlots
  <2>2. Uses(e, 1, own2[1]) = {u} \cup {v, x} \cup {w, y}
    BY <1>4, <1>25, <2>1 DEF Uses
  <2>3. QED  BY <1>8, <1>26, <2>2
<1>28. SpaceIn(e, n, pt2, new, own2, 1)
  BY <1>3, <1>23, <1>25, <1>26 DEF SpaceIn
<1>29. \A q \in Proc : HasTables(e, pt2, q) => q = 1
  BY DEF HasTables
<1>30. Owns(e, pt2, own2)
  <2>1. \A q \in Proc : q # 1 => own2[q] = {}
    <3>1. \A q \in Proc : ~HasTables(e, pt, q) => own[q] = {}
      BY <1>1 DEF Owns
    <3>2. QED  BY <1>25, <3>1 DEF HasTables
  <2>2. QED  BY <1>25, <1>26, <1>29, <2>1 DEF Owns
<1>31. n \in Memory /\ FreeTo(n, t.freelist, lo, f)
  BY <1>21 DEF Allocates
<1>32. Layout(e, n, t.freelist, pt2, lo, f, last, new, own2)
  <2>1. Assigned(new, f, last, AllUses(e, pt2, own2))
    BY <1>14, <1>27
  <2>2. \A q \in Proc : HasTables(e, pt2, q) => SpaceIn(e, n, pt2, new, own2, q)
    BY <1>28, <1>29
  <2>3. QED  BY <1>1, <1>3, <1>30, <1>31, <2>1, <2>2 DEF Layout
<1>33. LowPages(n)
  <2>1. \A q \in Page : q < 10 => q \notin {hi, a, b, c, g}
    BY <1>3, Sizes
  <2>2. QED  BY <1>22, <2>1 DEF LowPages, SameBut
<1>34. Keeps(m, n, use, new, own, own2)
  <2>1. ASSUME NEW q \in Proc, NEW r \in Page, NEW j \in Slots, use[r] = PageUse(q, j) PROVE FALSE
    BY <1>10, <2>1, UseFacts DEF Assigned
  <2>2. n[b][0] = First(STACK) /\ n[g][0] = First(CODE_START)
    <3>1. 0 \in Slots /\ STACK # CODE_START
      BY <1>4, <1>5, Sizes
    <3>2. n[g][0] = CODE
      BY <1>22, <3>1, OneWordAt
    <3>3. n[b][0] = NULL
      BY <1>22, <3>1, ZeroPageTyped
    <3>4. QED  BY <3>1, <3>2, <3>3 DEF First
  <2>3. ASSUME NEW q \in Proc PROVE own[q] \subseteq own2[q] /\ \A va \in own2[q] : va \notin own[q] => q = 1
    <3>1. CASE q = 1
      <4>1. own[1] = {}
        BY <1>1, <1>25 DEF Owns
      <4>2. QED  BY <3>1, <4>1
    <3>2. CASE q # 1
      BY <1>25, <3>2
    <3>3. QED  BY <3>1, <3>2
  <2>4. ASSUME NEW va \in own2[1] PROVE \E r \in Page : new[r] = PageUse(1, va[1]) /\ n[r][0] = First(va)
    <3>1. CASE va = STACK
      BY <1>3, <1>4, <1>20, <2>2, <3>1
    <3>2. CASE va = CODE_START
      BY <1>3, <1>4, <1>20, <2>2, <3>2
    <3>3. QED  BY <1>25, <3>1, <3>2
  <2>5. QED  BY <1>19, <2>1, <2>3, <2>4 DEF Keeps
<1>35. QED  BY <1>21, <1>24, <1>32, <1>33, <1>34

-----------------------------------------------------------------------------
(***************************************************************************)
(* What processes find at addresses.                                       *)
(***************************************************************************)
Seen == Addresses \cup {CODE_START}

NeededBy(e, p) == IF e = "8.UserProcess" /\ p = 1 THEN USER ELSE KERNEL

\* The directory is where word says.
Found(e, m, word, p, va) ==
  LET at == IF word = NULL THEN Nobody ELSE Translated(m, word, va, NeededBy(e, p))
  IN  IF at = Nobody THEN First(va) ELSE m[at][0]

\* The first process of 8.UserProcess stays in SPEDE's directory.
KernelDirectory(e, pt) == e = "8.UserProcess" => pt[0] \in {NULL, Entry(SPEDE_DIRECTORY, {})}

Low(e, m) == e = "8.UserProcess" => LowPages(m)

LEMMA SeenFacts ==
  /\ Seen \subseteq Slots \X Slots /\ \A va \in Seen : va[1] \in Slots /\ va[2] \in Slots /\ va[1] >= 2
  /\ Demand \subseteq Seen /\ STACK \in Seen /\ CODE_START \in Seen
<1>1. STACK[1] >= 2 /\ CODE_START[1] >= 2
  <2>1. STACK[1] \in Nat /\ CODE_START[1] \in Nat /\ X[1] \in Nat
    BY AddressFacts, Sizes
  <2>2. QED  BY <2>1, AddressFacts
<1>2. \A va \in Seen : va \in Slots \X Slots /\ va[1] >= 2
  BY <1>1, AddressFacts DEF Seen, Addresses, Demand
<1>3. \A va \in Seen : va[1] \in Slots /\ va[2] \in Slots
  BY <1>2
<1>4. QED  BY <1>2, <1>3 DEF Seen, Addresses, Demand

LEMMA FlagsNeeded ==
  ASSUME NEW e, NEW p PROVE NeededBy(e, p) \subseteq USER /\ NeededBy(e, p) # {}
  BY FlagFacts DEF NeededBy

\* An address of its own leads a process to the page that has this use.
LEMMA FoundOwn ==
  ASSUME NEW e, NEW m, NEW list, NEW pt, NEW lo, NEW hi, NEW last, NEW use, NEW own,
         Layout(e, m, list, pt, lo, hi, last, use, own), OwnEntries, NEW p \in Proc, NEW va \in own[p]
  PROVE  /\ HasTables(e, pt, p) /\ va \in Slots \X Slots
         /\ \E r \in Page : use[r] = PageUse(p, va[1])
         /\ \A r \in Page : use[r] = PageUse(p, va[1]) =>
              Translated(m, pt[p], va, USER) = r /\ Translated(m, pt[p], va, KERNEL) = r
                /\ Found(e, m, pt[p], p, va) = m[r][0]
<1>1. /\ e \in {"6.MemPolicy", "8.UserProcess"} /\ Owns(e, pt, own) /\ Assigned(use, hi, last, AllUses(e, pt, own))
      /\ \A q \in Proc : HasTables(e, pt, q) => SpaceIn(e, m, pt, use, own, q)
  BY DEF Layout
<1>2. HasTables(e, pt, p)
  BY <1>1 DEF Owns
<1>3. PICK d \in Page : pt[p] = Entry(d, {}) /\ Space(e, m, d, use, p, own[p])
  BY <1>1, <1>2 DEF SpaceIn
<1>4. va \in Slots \X Slots
  BY <1>1, OwnSeparate DEF Separate
<1>5. Leading(m, d, use, p, va)
  BY <1>3 DEF Space
<1>6. PICK q \in Page, r \in Page : Leads(m, d, va, q, r) /\ use[r] = PageUse(p, va[1])
  BY <1>5 DEF Leading
<1>7. PICK word : word = pt[p] /\ PageOf(word) = d /\ word # NULL
  BY <1>2, <1>3, WordFacts, FlagFacts DEF HasTables
<1>8. USER \subseteq USER /\ KERNEL \subseteq USER /\ NeededBy(e, p) \subseteq USER
  BY FlagsNeeded, FlagFacts
<1>9. \A flags : flags \subseteq USER => Translated(m, word, va, flags) = r
  BY <1>4, <1>6, <1>7, TranslatedLeads
<1>10. r # Nobody
  BY Sizes DEF Nobody
<1>11. Found(e, m, word, p, va) = m[r][0]
  BY <1>7, <1>8, <1>9, <1>10 DEF Found
<1>12. \A t \in Page : use[t] = PageUse(p, va[1]) => t = r
  BY <1>1, <1>6, UseFacts DEF Assigned
<1>13. QED  BY <1>2, <1>4, <1>6, <1>7, <1>8, <1>9, <1>11, <1>12

\* Other addresses lead nowhere.
LEMMA FoundNone ==
  ASSUME NEW e, NEW m, NEW list, NEW pt, NEW lo, NEW hi, NEW last, NEW use, NEW own,
         Layout(e, m, list, pt, lo, hi, last, use, own), OwnEntries, Low(e, m), KernelDirectory(e, pt),
         NEW p \in Proc, pt[p] # NULL, NEW va \in Seen, va \notin own[p]
  PROVE  Translated(m, pt[p], va, NeededBy(e, p)) = Nobody
<1>1. /\ e \in {"6.MemPolicy", "8.UserProcess"} /\ Owns(e, pt, own)
      /\ \A q \in Proc : HasTables(e, pt, q) => SpaceIn(e, m, pt, use, own, q)
  BY DEF Layout
<1>2. va \in Slots \X Slots /\ va[1] \in Slots /\ va[2] \in Slots /\ va[1] >= 2
  BY SeenFacts
<1>3. CASE HasTables(e, pt, p)
  <2>1. PICK d \in Page : pt[p] = Entry(d, {}) /\ Space(e, m, d, use, p, own[p])
    BY <1>1, <1>3 DEF SpaceIn
  <2>2. PICK word : word = pt[p] /\ PageOf(word) = d
    BY <2>1, WordFacts, FlagFacts
  <2>3. CASE va[1] \notin KernelSlots(e)
    <3>1. PICK o : o = own[p]
      OBVIOUS
    <3>2. Space(e, m, d, use, p, o) /\ va \notin o
      BY <2>1, <3>1
    <3>3. o \subseteq Slots \X Slots
      BY <1>1, <3>1, OwnSeparate DEF Separate
    <3>4. PICK flags : flags = NeededBy(e, p) /\ flags # {}
      BY FlagsNeeded
    <3>5. Translated(m, word, va, flags) = Nobody
      BY <1>2, <2>2, <2>3, <3>2, <3>3, <3>4, TranslatedNone
    <3>6. QED  BY <2>2, <3>4, <3>5
  <2>4. CASE va[1] \in KernelSlots(e)
    <3>1. e = "8.UserProcess"
      <4>1. va[1] \in Nat
        BY <1>2, Sizes
      <4>2. va[1] \notin {0, 1}
        BY <1>2, <4>1
      <4>3. QED  BY <1>1, <2>4, <4>2 DEF KernelSlots
    <3>2. p = 1
      BY <1>3, <3>1 DEF HasTables
    <3>3. va[1] \in KernelEntries
      BY <2>4, <3>1 DEF KernelSlots
    <3>4. PICK q \in Page : m[d][va[1]] = Entry(q, KERNEL)
      BY <2>1, <3>1, <3>3, FirstMemoryIs DEF Space, KernelIn
    <3>5. Translated(m, word, va, USER) = Nobody
      BY <2>2, <3>4, TranslatedKernel
    <3>6. QED  BY <2>2, <3>1, <3>2, <3>5 DEF NeededBy
  <2>5. QED  BY <2>3, <2>4
<1>4. CASE ~HasTables(e, pt, p)
  <2>1. e = "8.UserProcess" /\ p # 1
    BY <1>4 DEF HasTables
  <2>2. p = 0 /\ pt[p] = Entry(SPEDE_DIRECTORY, {})
    BY <2>1 DEF KernelDirectory, Proc
  <2>3. PICK word : word = pt[p] /\ PageOf(word) = SPEDE_DIRECTORY
    BY <2>2, WordFacts, FlagFacts, FirstMemoryIs
  <2>4. LowPages(m)
    BY <2>1 DEF Low
  <2>5. PICK table, entry : table = m[SPEDE_DIRECTORY][va[1]] /\ entry = m[PageOf(table)][va[2]]
    OBVIOUS
  <2>6. Translated(m, word, va, KERNEL) =
          IF KERNEL \subseteq FlagsOf(table) /\ KERNEL \subseteq FlagsOf(entry) THEN PageOf(entry) ELSE Nobody
    BY <2>3, <2>5, TranslatedIs
  <2>7. m[SPEDE_DIRECTORY] = FirstMemory[SPEDE_DIRECTORY]
    <3>1. SPEDE_DIRECTORY < 10
      BY DEF SPEDE_DIRECTORY
    <3>2. QED  BY <2>4, <3>1, FirstMemoryIs DEF LowPages
  <2>8. FlagsOf(table) = {} \/ FlagsOf(entry) = {}
    <3>1. CASE va[1] \in KernelEntries
      <4>1. PICK q : q = SPEDE_TABLE + va[1]
        OBVIOUS
      <4>2. q \in Page /\ q # SPEDE_DIRECTORY /\ q < 7
        BY <3>1, <4>1, FirstMemoryIs
      <4>3. table = Entry(q, KERNEL) /\ PageOf(table) = q
        BY <2>5, <2>7, <3>1, <4>1, <4>2, FirstMemoryIs, WordFacts, FlagFacts
      <4>4. m[q] = ZeroPage
        <5>1. q < 10
          BY <4>2, Sizes
        <5>2. QED  BY <2>4, <4>2, <5>1, FirstMemoryIs DEF LowPages
      <4>5. entry = NULL
        BY <1>2, <2>5, <4>3, <4>4, ZeroPageTyped
      <4>6. QED  BY <4>5, WordFacts
    <3>2. CASE va[1] \notin KernelEntries
      <4>1. table = NULL
        BY <1>2, <2>5, <2>7, <3>2, FirstMemoryIs
      <4>2. QED  BY <4>1, WordFacts
    <3>3. QED  BY <3>1, <3>2
  <2>9. Translated(m, word, va, KERNEL) = Nobody
    BY <2>6, <2>8, FlagFacts
  <2>10. QED  BY <2>1, <2>3, <2>9 DEF NeededBy
<1>5. QED  BY <1>3, <1>4

\* What a process finds does not change when pages are taken.
LEMMA FoundKept ==
  ASSUME OwnEntries, NEW e, NEW m, NEW list, NEW pt, NEW lo, NEW hi, NEW last, NEW use, NEW own,
         Layout(e, m, list, pt, lo, hi, last, use, own), Low(e, m), KernelDirectory(e, pt),
         NEW n, NEW list2, NEW pt2, NEW lo2, NEW hi2, NEW last2, NEW new, NEW own2,
         Layout(e, n, list2, pt2, lo2, hi2, last2, new, own2), Low(e, n), KernelDirectory(e, pt2),
         Keeps(m, n, use, new, own, own2), NEW p \in Proc, NEW va \in Seen
  PROVE  Found(e, n, pt2[p], p, va) = Found(e, m, pt[p], p, va)
<1>1. va \notin own[p] => Found(e, m, pt[p], p, va) = First(va)
  <2>1. ASSUME pt[p] # NULL, va \notin own[p] PROVE Translated(m, pt[p], va, NeededBy(e, p)) = Nobody
    BY <2>1, FoundNone
  <2>2. QED  BY <2>1 DEF Found
<1>2. va \notin own2[p] => Found(e, n, pt2[p], p, va) = First(va)
  <2>1. ASSUME pt2[p] # NULL, va \notin own2[p] PROVE Translated(n, pt2[p], va, NeededBy(e, p)) = Nobody
    BY <2>1, FoundNone
  <2>2. QED  BY <2>1 DEF Found
<1>3. va \in own2[p] => \A r \in Page : new[r] = PageUse(p, va[1]) => Found(e, n, pt2[p], p, va) = n[r][0]
  BY FoundOwn
<1>4. CASE va \in own[p]
  <2>1. PICK r \in Page : use[r] = PageUse(p, va[1])
    BY <1>4, FoundOwn
  <2>2. Found(e, m, pt[p], p, va) = m[r][0]
    BY <1>4, <2>1, FoundOwn
  <2>3. new[r] = PageUse(p, va[1]) /\ n[r] = m[r] /\ va \in own2[p]
    BY <1>4, <2>1, SeenFacts, UseFacts DEF Keeps, Extends
  <2>4. QED  BY <1>3, <2>2, <2>3
<1>5. CASE va \notin own[p] /\ va \in own2[p]
  <2>1. PICK r \in Page : new[r] = PageUse(p, va[1]) /\ n[r][0] = First(va)
    BY <1>5 DEF Keeps
  <2>2. QED  BY <1>1, <1>3, <1>5, <2>1
<1>6. CASE va \notin own[p] /\ va \notin own2[p]
  BY <1>1, <1>2, <1>6
<1>7. QED  BY <1>4, <1>5, <1>6

\* A process stores to an address of its own.
LEMMA FoundStored ==
  ASSUME OwnEntries, NEW e, NEW m, NEW list, NEW pt, NEW lo, NEW hi, NEW last, NEW use, NEW own,
         Layout(e, m, list, pt, lo, hi, last, use, own), Low(e, m), KernelDirectory(e, pt),
         NEW p \in Proc, NEW va \in own[p], NEW r \in Page, use[r] = PageUse(p, va[1]), NEW word \in Word,
         NEW n, n = Worded(m, r, 0, word)
  PROVE  /\ Layout(e, n, list, pt, lo, hi, last, use, own) /\ Low(e, n)
         /\ \A q \in Proc, b \in Seen :
              Found(e, n, pt[q], q, b) = IF q = p /\ b = va THEN word ELSE Found(e, m, pt[q], q, b)
<1>1. m \in Memory /\ 0 \in Slots
  BY Sizes DEF Layout
<1>2. n \in Memory /\ n[r] = WithWord(m[r], 0, word) /\ SameBut(m, n, {r})
  BY <1>1, WithWordIs
<1>3. n[r][0] = word
  BY <1>1, <1>2 DEF WithWord
<1>4. Layout(e, n, list, pt, lo, hi, last, use, own) /\ r > hi
  BY <1>2, LayoutStays
<1>5. Low(e, n)
  <2>1. CASE e = "8.UserProcess"
    <3>1. FreeTo(m, list, lo, hi) /\ PoolIs(e, lo, last) /\ e \in {"6.MemPolicy", "8.UserProcess"}
      BY DEF Layout
    <3>2. lo >= 10 /\ lo \in Page
      BY <3>1, PoolFacts
    <3>3. lo \in Nat /\ hi \in lo - 1 .. 2 * ENTRIES - 1
      BY <3>1, <3>2, Sizes DEF FreeTo
    <3>4. ~(r < 10)
      BY <1>4, <3>2, <3>3, Sizes
    <3>5. LowPages(m)
      BY <2>1 DEF Low
    <3>6. LowPages(n)
      BY <1>2, <3>4, <3>5 DEF LowPages, SameBut
    <3>7. QED  BY <3>6 DEF Low
  <2>2. CASE e # "8.UserProcess"
    BY <2>2 DEF Low
  <2>3. QED  BY <2>1, <2>2
<1>6. ASSUME NEW q \in Proc, NEW b \in Seen
      PROVE  Found(e, n, pt[q], q, b) = IF q = p /\ b = va THEN word ELSE Found(e, m, pt[q], q, b)
  <2>1. CASE b \in own[q]
    <3>1. PICK t \in Page : use[t] = PageUse(q, b[1])
      BY <2>1, FoundOwn
    <3>2. Found(e, m, pt[q], q, b) = m[t][0]
      BY <2>1, <3>1, FoundOwn
    <3>3. Found(e, n, pt[q], q, b) = n[t][0]
      BY <1>4, <2>1, <3>1, FoundOwn
    <3>4. CASE q = p /\ b = va
      <4>1. t = r
        <5>1. Assigned(use, hi, last, AllUses(e, pt, own))
          BY DEF Layout
        <5>2. QED  BY <3>1, <3>4, <5>1, UseFacts DEF Assigned
      <4>2. QED  BY <1>3, <3>3, <3>4, <4>1
    <3>5. CASE ~(q = p /\ b = va)
      <4>1. t # r
        <5>1. CASE q # p
          BY <3>1, <5>1, UseFacts
        <5>2. CASE q = p /\ b # va
          <6>1. e \in {"6.MemPolicy", "8.UserProcess"} /\ Owns(e, pt, own)
            BY DEF Layout
          <6>2. Separate(e, own[p])
            BY <6>1, OwnSeparate
          <6>3. b[1] # va[1]
            BY <2>1, <5>2, <6>2 DEF Separate
          <6>4. QED  BY <3>1, <6>3, UseFacts
        <5>3. QED  BY <3>5, <5>1, <5>2
      <4>2. n[t] = m[t]
        BY <1>2, <4>1 DEF SameBut
      <4>3. QED  BY <3>2, <3>3, <3>5, <4>2
    <3>6. QED  BY <3>4, <3>5
  <2>2. CASE b \notin own[q]
    <3>1. ASSUME pt[q] # NULL
          PROVE  /\ Translated(m, pt[q], b, NeededBy(e, q)) = Nobody
                 /\ Translated(n, pt[q], b, NeededBy(e, q)) = Nobody
      <4>1. Translated(m, pt[q], b, NeededBy(e, q)) = Nobody
        BY <2>2, <3>1, FoundNone
      <4>2. Translated(n, pt[q], b, NeededBy(e, q)) = Nobody
        BY <1>4, <1>5, <2>2, <3>1, FoundNone
      <4>3. QED  BY <4>1, <4>2
    <3>2. Found(e, n, pt[q], q, b) = First(b) /\ Found(e, m, pt[q], q, b) = First(b)
      BY <3>1 DEF Found
    <3>3. ~(q = p /\ b = va)
      BY <2>2
    <3>4. QED  BY <3>2, <3>3
  <2>3. QED  BY <2>1, <2>2
<1>7. QED  BY <1>4, <1>5, <1>6

-----------------------------------------------------------------------------
(***************************************************************************)
(* The memory of 5.PageFault: SPEDE's directory, and the entry that the    *)
(* handler adds to it.                                                     *)
(***************************************************************************)
Unmapped(m) == m[SPEDE_DIRECTORY][X[1]] = NULL /\ m[page] = ZeroPage /\ m[pg_table] = ZeroPage

Mapped(m) ==
  m[SPEDE_DIRECTORY][X[1]] = Entry(pg_table, KERNEL) /\ m[pg_table] = OneWord(X[2], Entry(page, KERNEL))

FaultShape(m) ==
  /\ m \in Memory
  /\ \A i \in KernelEntries : m[SPEDE_DIRECTORY][i] = Entry(SPEDE_TABLE + i, KERNEL) /\ m[SPEDE_TABLE + i] = ZeroPage
  /\ \A i \in Slots : i \notin KernelEntries /\ i # X[1] => m[SPEDE_DIRECTORY][i] = NULL
  /\ Unmapped(m) \/ Mapped(m)

LEMMA FaultPages ==
  /\ page \in Page /\ pg_table \in Page /\ page # pg_table /\ page # SPEDE_DIRECTORY /\ pg_table # SPEDE_DIRECTORY
  /\ \A i \in KernelEntries : SPEDE_TABLE + i # page /\ SPEDE_TABLE + i # pg_table
  /\ X[1] \in Slots /\ X[2] \in Slots /\ X[1] \notin KernelEntries /\ X \in Seen /\ X # CODE_START /\ 0 \in Slots
<1>1. X[1] \in Slots /\ X[2] \in Slots /\ X \in Seen /\ X # CODE_START
  <2>1. X \in Demand
    BY DEF Demand
  <2>2. QED  BY <2>1, AddressFacts, SeenFacts
<1>2. X[1] \notin KernelEntries
  <2>1. X[1] \in Nat /\ X[1] > 4
    BY <1>1, AddressFacts, Sizes
  <2>2. QED  BY <2>1 DEF KernelEntries
<1>3. QED  BY <1>1, <1>2, Sizes DEF page, pg_table, SPEDE_DIRECTORY, SPEDE_TABLE, KernelEntries

\* Only X leads to a page.
LEMMA FaultTranslated ==
  ASSUME NEW m, FaultShape(m), NEW word, word = Entry(SPEDE_DIRECTORY, {}), NEW va \in Seen
  PROVE  /\ Mapped(m) /\ va = X => Translated(m, word, va, KERNEL) = page
         /\ ~(Mapped(m) /\ va = X) => Translated(m, word, va, KERNEL) = Nobody
<1>1. PageOf(word) = SPEDE_DIRECTORY
  BY FirstMemoryIs, WordFacts, FlagFacts
<1>2. PICK table, entry : table = m[SPEDE_DIRECTORY][va[1]] /\ entry = m[PageOf(table)][va[2]]
  OBVIOUS
<1>3. Translated(m, word, va, KERNEL) =
        IF KERNEL \subseteq FlagsOf(table) /\ KERNEL \subseteq FlagsOf(entry) THEN PageOf(entry) ELSE Nobody
  BY <1>1, <1>2, TranslatedIs
<1>4. va[1] \in Slots /\ va[2] \in Slots /\ va \in Slots \X Slots /\ X \in Slots \X Slots
  BY SeenFacts, AddressFacts
<1>5. ASSUME FlagsOf(table) = {} \/ FlagsOf(entry) = {} PROVE Translated(m, word, va, KERNEL) = Nobody
  BY <1>3, <1>5, FlagFacts
<1>6. CASE va[1] \in KernelEntries
  <2>1. PICK q : q = SPEDE_TABLE + va[1]
    OBVIOUS
  <2>2. q \in Page /\ table = Entry(q, KERNEL) /\ m[q] = ZeroPage
    BY <1>2, <1>6, <2>1, FirstMemoryIs DEF FaultShape
  <2>3. PageOf(table) = q
    BY <2>2, WordFacts, FlagFacts
  <2>4. entry = NULL
    BY <1>2, <1>4, <2>2, <2>3, ZeroPageTyped
  <2>5. va # X
    BY <1>6, FaultPages
  <2>6. QED  BY <1>5, <2>4, <2>5, WordFacts
<1>7. CASE va[1] \notin KernelEntries /\ va[1] # X[1]
  <2>1. table = NULL
    BY <1>2, <1>4, <1>7 DEF FaultShape
  <2>2. QED  BY <1>5, <1>7, <2>1, WordFacts
<1>8. CASE va[1] = X[1] /\ Unmapped(m)
  <2>1. table = NULL
    BY <1>2, <1>8 DEF Unmapped
  <2>2. ~Mapped(m)
    BY <1>8, FaultPages, WordFacts, FlagFacts DEF Mapped, Unmapped
  <2>3. QED  BY <1>5, <2>1, <2>2, WordFacts
<1>9. CASE va[1] = X[1] /\ Mapped(m)
  <2>1. table = Entry(pg_table, KERNEL) /\ m[pg_table] = OneWord(X[2], Entry(page, KERNEL))
    BY <1>2, <1>9 DEF Mapped
  <2>2. PageOf(table) = pg_table /\ FlagsOf(table) = KERNEL
    BY <2>1, FaultPages, WordFacts, FlagFacts
  <2>3. CASE va = X
    <3>1. entry = Entry(page, KERNEL)
      BY <1>2, <2>1, <2>2, <2>3, FaultPages, OneWordAt
    <3>2. PageOf(entry) = page /\ FlagsOf(entry) = KERNEL
      BY <3>1, FaultPages, WordFacts, FlagFacts
    <3>3. QED  BY <1>3, <1>9, <2>2, <2>3, <3>2
  <2>4. CASE va # X
    <3>1. va[2] # X[2]
      BY <1>4, <1>9, <2>4
    <3>2. entry = NULL
      BY <1>2, <1>4, <2>1, <2>2, <3>1, FaultPages, OneWordAt
    <3>3. QED  BY <1>5, <2>4, <3>2, WordFacts
  <2>5. QED  BY <2>3, <2>4
<1>10. QED  BY <1>6, <1>7, <1>8, <1>9 DEF FaultShape

LEMMA FaultFound ==
  ASSUME NEW m, FaultShape(m), NEW e, e = "5.PageFault", NEW word, word = Entry(SPEDE_DIRECTORY, {}),
         NEW p, NEW va \in Seen
  PROVE  /\ NeededBy(e, p) = KERNEL
         /\ Found(e, m, word, p, va) = IF Mapped(m) /\ va = X THEN m[page][0] ELSE First(va)
<1>1. NeededBy(e, p) = KERNEL
  BY DEF NeededBy
<1>2. word # NULL
  BY FirstMemoryIs, WordFacts, FlagFacts DEF SPEDE_DIRECTORY
<1>3. page # Nobody
  BY DEF page, Nobody
<1>4. PICK at : at = Translated(m, word, va, KERNEL)
  OBVIOUS
<1>5. (Mapped(m) /\ va = X => at = page) /\ (~(Mapped(m) /\ va = X) => at = Nobody)
  BY <1>4, FaultTranslated
<1>6. Found(e, m, word, p, va) = IF at = Nobody THEN First(va) ELSE m[at][0]
  BY <1>1, <1>2, <1>4 DEF Found
<1>7. QED  BY <1>1, <1>3, <1>5, <1>6

\* What the handler makes of the memory.
FaultMemory(m, n) ==
  \E mid : mid = Worded(m, pg_table, X[2], Entry(page, KERNEL))
             /\ n = Worded(mid, SPEDE_DIRECTORY, X[1], Entry(pg_table, KERNEL))

LEMMA FaultHandled ==
  ASSUME NEW m, FaultShape(m), Unmapped(m), NEW n, FaultMemory(m, n)
  PROVE  FaultShape(n) /\ Mapped(n) /\ n[page] = ZeroPage
<1>1. PICK mid : /\ mid = Worded(m, pg_table, X[2], Entry(page, KERNEL))
                 /\ n = Worded(mid, SPEDE_DIRECTORY, X[1], Entry(pg_table, KERNEL))
  BY DEF FaultMemory
<1>2. m \in Memory /\ m[pg_table] = ZeroPage /\ m[page] = ZeroPage
  BY DEF FaultShape, Unmapped
<1>3. Entry(page, KERNEL) \in Word /\ Entry(pg_table, KERNEL) \in Word
  BY FaultPages, WordFacts, FlagFacts
<1>4. mid \in Memory /\ mid[pg_table] = OneWord(X[2], Entry(page, KERNEL)) /\ SameBut(m, mid, {pg_table})
  BY <1>1, <1>2, <1>3, FaultPages, OneWordIs
<1>5. /\ n \in Memory /\ n[SPEDE_DIRECTORY] = WithWord(mid[SPEDE_DIRECTORY], X[1], Entry(pg_table, KERNEL))
      /\ SameBut(mid, n, {SPEDE_DIRECTORY})
  BY <1>1, <1>3, <1>4, FaultPages, FirstMemoryIs, WithWordIs
<1>6. mid[SPEDE_DIRECTORY] = m[SPEDE_DIRECTORY]
  BY <1>4, FaultPages, FirstMemoryIs DEF SameBut
<1>7. /\ n[SPEDE_DIRECTORY][X[1]] = Entry(pg_table, KERNEL)
      /\ \A i \in Slots : i # X[1] => n[SPEDE_DIRECTORY][i] = m[SPEDE_DIRECTORY][i]
  BY <1>5, <1>6, FaultPages, WithWordAt
<1>8. n[pg_table] = mid[pg_table] /\ n[page] = m[page]
  BY <1>4, <1>5, FaultPages DEF SameBut
<1>9. \A i \in KernelEntries : n[SPEDE_TABLE + i] = m[SPEDE_TABLE + i]
  <2>1. \A i \in KernelEntries : SPEDE_TABLE + i \in Page \ {pg_table, SPEDE_DIRECTORY}
    BY FaultPages, FirstMemoryIs
  <2>2. QED  BY <1>4, <1>5, <2>1 DEF SameBut
<1>10. \A i \in KernelEntries : i \in Slots /\ i # X[1]
  BY FaultPages, FirstMemoryIs
<1>11. Mapped(n)
  BY <1>4, <1>7, <1>8 DEF Mapped
<1>12. QED  BY <1>2, <1>5, <1>7, <1>8, <1>9, <1>10, <1>11 DEF FaultShape

LEMMA FaultStored ==
  ASSUME NEW m, FaultShape(m), Mapped(m), NEW word \in Word, NEW n, n = Worded(m, page, 0, word)
  PROVE  FaultShape(n) /\ Mapped(n) /\ n[page][0] = word
<1>1. m \in Memory
  BY DEF FaultShape
<1>2. n \in Memory /\ n[page] = WithWord(m[page], 0, word) /\ SameBut(m, n, {page})
  BY <1>1, FaultPages, WithWordIs
<1>3. n[page][0] = word
  BY <1>2, FaultPages DEF WithWord
<1>4. n[SPEDE_DIRECTORY] = m[SPEDE_DIRECTORY] /\ n[pg_table] = m[pg_table]
  BY <1>2, FaultPages, FirstMemoryIs DEF SameBut
<1>5. \A i \in KernelEntries : n[SPEDE_TABLE + i] = m[SPEDE_TABLE + i]
  <2>1. \A i \in KernelEntries : SPEDE_TABLE + i \in Page \ {page}
    BY FaultPages, FirstMemoryIs
  <2>2. QED  BY <1>2, <2>1 DEF SameBut
<1>6. Mapped(n)
  BY <1>4 DEF Mapped
<1>7. QED  BY <1>2, <1>3, <1>4, <1>5, <1>6 DEF FaultShape

-----------------------------------------------------------------------------
(***************************************************************************)
(* The invariant holds at first.                                           *)
(***************************************************************************)
\* The directory in use is the active process's, and processes have one in order.
Loaded(e, pt, act, c) ==
  /\ e \in {"5.PageFault", "6.MemPolicy", "8.UserProcess"} /\ act \in {Nobody, 0, 1}
  /\ pt = [q \in Proc |-> pt[q]]
  /\ act # Nobody => pt[act] # NULL /\ c = pt[act]
  /\ e = "5.PageFault" => pt[0] = Entry(SPEDE_DIRECTORY, {}) /\ pt[1] = NULL /\ act = 0
  /\ KernelDirectory(e, pt)
  /\ e = "8.UserProcess" =>
       /\ pt[1] # NULL => pt[0] # NULL
       /\ IF act = Nobody THEN c = Entry(SPEDE_DIRECTORY, {}) ELSE pt[1] # NULL

Pages(e, m, list, pt) ==
  /\ e = "5.PageFault" => FaultShape(m)
  /\ e # "5.PageFault" => \E lo, hi, last, use, own : Layout(e, m, list, pt, lo, hi, last, use, own)
  /\ Low(e, m)

Inv == Loaded(ex, pagetable, active, cr3) /\ Pages(ex, mem, freelist, pagetable)

\* Aligning page_address can lose its first page.
LEMMA PoolAligned ==
  ASSUME NEW e \in {"6.MemPolicy", "8.UserProcess"}, NEW place \in 0 .. 3, NEW vstart, vstart = Pool(e, place)[1],
         NEW vend, vend = Pool(e, place)[2]
  PROVE  \E lo \in Page, last \in Page :
           /\ PoolIs(e, lo, last) /\ lo > 0 /\ lo <= last /\ lo >= 10
           /\ FirstByte(PAGE_ALIGN(vstart), lo)
           /\ (vend - PAGE_ALIGN(vstart)) \div PAGE_SIZE = last - lo + 1
<1>1. CASE e = "6.MemPolicy"
  <2>1. PICK lo \in Nat, last \in Nat : lo = ENTRIES /\ last = 2 * ENTRIES - 1 /\ lo >= 20
    BY Sizes
  <2>2. vstart = lo * 4 /\ vend = 2 * lo * 4
    BY <1>1, <2>1 DEF Pool, PAGE_SIZE, PAGE_STOP
  <2>3. (vstart + 3) \div 4 = lo
    BY <2>1, <2>2
  <2>4. PAGE_ALIGN(vstart) = lo * 4
    BY <2>1, <2>2, <2>3 DEF PAGE_ALIGN, PAGE_SIZE
  <2>5. (vend - lo * 4) \div 4 = lo
    BY <2>1, <2>2
  <2>6. last - lo + 1 = lo /\ lo <= last
    BY <2>1
  <2>7. lo \in Page /\ last \in Page
    BY <2>1, Sizes
  <2>8. PoolIs(e, lo, last)
    BY <1>1, <2>1 DEF PoolIs
  <2>9. (vend - PAGE_ALIGN(vstart)) \div PAGE_SIZE = last - lo + 1
    BY <2>4, <2>5, <2>6 DEF PAGE_SIZE
  <2>10. FirstByte(PAGE_ALIGN(vstart), lo)
    BY <2>4 DEF FirstByte, PAGE_SIZE
  <2>11. QED  BY <2>1, <2>6, <2>7, <2>8, <2>9, <2>10
<1>2. CASE e = "8.UserProcess"
  <2>1. PICK lo \in Nat : lo = IF place = 0 THEN 10 ELSE 11
    OBVIOUS
  <2>2. PICK last \in Nat : last = 10 + POOL - 1 /\ last >= 15 /\ last < 2 * ENTRIES
    BY Sizes
  <2>3. vstart = 40 + place /\ vend = 40 + place + POOL * 4
    BY <1>2 DEF Pool, PAGE_SIZE
  <2>4. (vstart + 3) \div 4 = lo
    <3>1. CASE place = 0
      BY <2>1, <2>3, <3>1
    <3>2. CASE place # 0
      BY <2>1, <2>3, <3>2
    <3>3. QED  BY <3>1, <3>2
  <2>5. PAGE_ALIGN(vstart) = lo * 4
    BY <2>3, <2>4 DEF PAGE_ALIGN, PAGE_SIZE
  <2>6. (vend - lo * 4) \div 4 = last - lo + 1
    <3>1. POOL \in Nat
      BY Sizes
    <3>2. CASE place = 0
      BY <2>1, <2>2, <2>3, <3>1, <3>2
    <3>3. CASE place # 0
      BY <2>1, <2>2, <2>3, <3>1, <3>3
    <3>4. QED  BY <3>2, <3>3
  <2>7. lo \in Page /\ last \in Page /\ lo <= last /\ lo >= 10 /\ lo > 0 /\ lo \in {10, 11}
    BY <2>1, <2>2, Sizes
  <2>8. PoolIs(e, lo, last)
    BY <1>2, <2>2, <2>7 DEF PoolIs
  <2>9. (vend - PAGE_ALIGN(vstart)) \div PAGE_SIZE = last - lo + 1
    BY <2>5, <2>6 DEF PAGE_SIZE
  <2>10. FirstByte(PAGE_ALIGN(vstart), lo)
    BY <2>5 DEF FirstByte, PAGE_SIZE
  <2>11. QED  BY <2>7, <2>8, <2>9, <2>10
<1>3. QED  BY <1>1, <1>2

LEMMA InitPages ==
  ASSUME NEW e \in {"6.MemPolicy", "8.UserProcess"}, NEW place \in 0 .. 3, NEW vstart, vstart = Pool(e, place)[1],
         NEW vend, vend = Pool(e, place)[2], NEW t, t = kinit(Cell(FirstMemory, NULL, 0), vstart, vend),
         NEW pt, \A q \in Proc : pt[q] = NULL
  PROVE  Low(e, t.mem) /\ \E lo, hi, last, use, own : Layout(e, t.mem, t.freelist, pt, lo, hi, last, use, own)
<1>1. PICK lo \in Page, last \in Page :
        /\ PoolIs(e, lo, last) /\ lo > 0 /\ lo <= last /\ lo >= 10
        /\ FirstByte(PAGE_ALIGN(vstart), lo) /\ (vend - PAGE_ALIGN(vstart)) \div PAGE_SIZE = last - lo + 1
  BY PoolAligned
<1>2. PICK s : s = Cell(FirstMemory, NULL, 0)
  OBVIOUS
<1>3. FirstMemory \in Memory
  BY FirstMemoryIs
<1>4. Allocates(t, lo, last) /\ \A q \in Page : q < lo \/ q > last => t.mem[q] = FirstMemory[q]
  BY <1>1, <1>2, <1>3, KinitIs
<1>5. PICK use, own : use = [q \in Page |-> Nothing] /\ own = [q \in Proc |-> {}]
  OBVIOUS
<1>6. last \in Nat /\ last < 2 * ENTRIES /\ lo \in Nat /\ last <= last
  BY <1>1, Sizes
<1>7. \A q \in Proc : ~HasTables(e, pt, q)
  BY DEF HasTables
<1>8. AllUses(e, pt, own) = {}
  BY <1>7 DEF AllUses, UsesIn, Proc
<1>9. Assigned(use, last, last, AllUses(e, pt, own))
  <2>1. \A q \in Page : use[q] = Nothing /\ ~(last < q /\ q <= last)
    BY <1>5, <1>6, Sizes
  <2>2. QED  BY <1>8, <2>1 DEF Assigned
<1>10. Owns(e, pt, own)
  BY <1>5, <1>7 DEF Owns
<1>11. Layout(e, t.mem, t.freelist, pt, lo, last, last, use, own)
  BY <1>1, <1>4, <1>6, <1>7, <1>9, <1>10 DEF Layout, Allocates
<1>12. LowPages(t.mem)
  <2>1. \A q \in Page : q < 10 => q < lo
    BY <1>1, <1>6, Sizes
  <2>2. QED  BY <1>4, <2>1 DEF LowPages
<1>13. QED  BY <1>11, <1>12 DEF Low

LEMMA InvInit == Init => Inv
<1> SUFFICES ASSUME Init PROVE Inv
  OBVIOUS
<1>1. ex \in {"5.PageFault", "6.MemPolicy", "8.UserProcess"} /\ cr3 = Entry(SPEDE_DIRECTORY, {})
  BY PageTablesAssumption DEF Init
<1>2. CASE ex = "5.PageFault"
  <2>1. mem = FirstMemory /\ active = 0 /\ pagetable = [p \in Proc |-> IF p = 0 THEN cr3 ELSE NULL]
    BY <1>2 DEF Init
  <2>2. pagetable[0] = cr3 /\ pagetable[1] = NULL /\ pagetable = [p \in Proc |-> pagetable[p]]
    BY <2>1 DEF Proc
  <2>3. cr3 # NULL
    BY <1>1, FirstMemoryIs, WordFacts, FlagFacts DEF SPEDE_DIRECTORY
  <2>4. FaultShape(mem)
    <3>1. Unmapped(mem)
      BY <2>1, FaultPages, FirstMemoryIs DEF Unmapped
    <3>2. QED  BY <2>1, <3>1, FirstMemoryIs DEF FaultShape
  <2>5. Loaded(ex, pagetable, active, cr3)
    BY <1>1, <1>2, <2>1, <2>2, <2>3 DEF Loaded, KernelDirectory
  <2>6. QED  BY <1>2, <2>4, <2>5 DEF Inv, Pages, Low
<1>3. CASE ex # "5.PageFault"
  <2>1. active = Nobody /\ pagetable = [p \in Proc |-> NULL]
    BY <1>3 DEF Init
  <2>2. \A q \in Proc : pagetable[q] = NULL
    BY <2>1
  <2>3. PICK place, vstart, vend, t :
          /\ place \in Places /\ vstart = Pool(ex, place)[1] /\ vend = Pool(ex, place)[2]
          /\ t = kinit(Cell(FirstMemory, NULL, 0), vstart, vend) /\ mem = t.mem /\ freelist = t.freelist
    BY <1>3 DEF Init, Cell
  <2>4. place \in 0 .. 3 /\ ex \in {"6.MemPolicy", "8.UserProcess"}
    BY <1>1, <1>3, <2>3, PageTablesAssumption
  <2>5. Low(ex, mem) /\ \E lo, hi, last, use, own : Layout(ex, mem, freelist, pagetable, lo, hi, last, use, own)
    BY <2>2, <2>3, <2>4, InitPages
  <2>6. Loaded(ex, pagetable, active, cr3)
    BY <1>1, <1>3, <2>1, <2>2 DEF Loaded, KernelDirectory, Proc
  <2>7. QED  BY <1>3, <2>5, <2>6 DEF Inv, Pages
<1>4. QED  BY <1>2, <1>3

-----------------------------------------------------------------------------
(***************************************************************************)
(* The steps that create processes and switch between them.                *)
(***************************************************************************)
SameFound(e, m, pt, n, pt2) ==
  \A p \in Proc, va \in Seen : Found(e, n, pt2[p], p, va) = Found(e, m, pt[p], p, va)

LEMMA KeepsSelf == ASSUME NEW m, NEW use, NEW own PROVE Keeps(m, m, use, use, own, own)
  BY DEF Keeps, Extends

\* The process that is not created yet.
LEMMA NextToCreateIs ==
  ASSUME \E p \in Proc : pagetable[p] = NULL
  PROVE  NextToCreate \in Proc /\ pagetable[NextToCreate] = NULL
<1>1. \E p \in Proc : pagetable[p] = NULL /\ \A q \in Proc : q < p => pagetable[q] # NULL
  <2>1. CASE pagetable[0] = NULL
    BY <2>1 DEF Proc
  <2>2. CASE pagetable[0] # NULL
    BY <2>2 DEF Proc
  <2>3. QED  BY <2>1, <2>2
<1>2. QED  BY <1>1 DEF NextToCreate

LEMMA InitProcStep ==
  ASSUME OwnEntries, EnoughPages, Inv, init_proc
  PROVE  Inv' /\ SameFound(ex', mem, pagetable, mem', pagetable')
<1>1. PICK e : e = "6.MemPolicy"
  OBVIOUS
<1>2. ex = e /\ ex' = e /\ active = Nobody /\ active' = Nobody /\ cr3' = cr3
  BY <1>1 DEF init_proc
<1>3. PICK p \in Proc : p = NextToCreate /\ pagetable[p] = NULL
  BY NextToCreateIs DEF init_proc
<1>4. PICK s, t : s = Cell(mem, freelist, 0) /\ t = MemPolicy_setup_pagetable(s)
  OBVIOUS
<1>5. mem' = t.mem /\ freelist' = t.freelist /\ pagetable' = [pagetable EXCEPT ![p] = Entry(t.got, {})]
  BY <1>3, <1>4 DEF init_proc, State, Becomes, Cell
<1>6. PICK lo, hi, last, use, own : Layout(e, mem, freelist, pagetable, lo, hi, last, use, own)
  BY <1>1, <1>2 DEF Inv, Pages
<1>7. ~HasTables(e, pagetable, p)
  BY <1>3 DEF HasTables
<1>8. Room(lo, hi, 3)
  BY <1>1, <1>6, <1>7, RoomLeft
<1>9. PICK a, b, c : Below(a, hi) /\ Below(b, a) /\ Below(c, b)
  BY DEF Below
<1>10. s.mem = mem /\ s.freelist = freelist
  BY <1>4 DEF Cell
<1>11. Allocates(s, lo, hi)
  BY <1>6, <1>10 DEF Layout, Allocates
<1>12. /\ t.got = hi /\ Allocates(t, lo, c) /\ SameBut(s.mem, t.mem, {hi, a, b})
       /\ Holds(t.mem, hi, MemPolicyDirectory(a, b))
       /\ Holds(t.mem, a, IdentityTable(0)) /\ Holds(t.mem, b, IdentityTable(1))
  BY <1>4, <1>8, <1>9, <1>11, MemPolicySetupTakes
<1>13. SameBut(mem, t.mem, {hi, a, b})
  BY <1>10, <1>12
<1>14. PICK new, pt2 : /\ new = For(For(For(use, hi, DirectoryUse(p)), a, TableUse(p, 0)), b, TableUse(p, 1))
                       /\ pt2 = Directed(pagetable, p, hi)
  OBVIOUS
<1>15. Layout(e, t.mem, t.freelist, pt2, lo, c, last, new, own) /\ Keeps(mem, t.mem, use, new, own, own)
  BY <1>1, <1>6, <1>7, <1>8, <1>9, <1>12, <1>13, <1>14, SetupLayout
<1>16. pagetable' = pt2 /\ pt2 = [q \in Proc |-> pt2[q]]
  <2>1. pagetable = [q \in Proc |-> pagetable[q]]
    BY DEF Inv, Loaded
  <2>2. QED  BY <1>5, <1>12, <1>14, <2>1 DEF Directed
<1>17. KernelDirectory(e, pagetable) /\ KernelDirectory(e, pt2) /\ Low(e, mem) /\ Low(e, t.mem)
  BY <1>1 DEF KernelDirectory, Low
<1>18. SameFound(e, mem, pagetable, t.mem, pt2)
  <2>1. ASSUME NEW q \in Proc, NEW va \in Seen
        PROVE  Found(e, t.mem, pt2[q], q, va) = Found(e, mem, pagetable[q], q, va)
    BY <1>6, <1>15, <1>17, FoundKept
  <2>2. QED  BY <2>1 DEF SameFound
<1>19. Pages(e, t.mem, t.freelist, pt2)
  BY <1>1, <1>15, <1>17 DEF Pages
<1>20. Loaded(e, pt2, Nobody, cr3)
  BY <1>1, <1>16, <1>17 DEF Loaded
<1>21. QED  BY <1>2, <1>5, <1>16, <1>18, <1>19, <1>20 DEF Inv

\* The first process of 8.UserProcess has no pages.
LEMMA LayoutSameTables ==
  ASSUME NEW e, NEW m, NEW list, NEW pt, NEW lo, NEW hi, NEW last, NEW use, NEW own,
         Layout(e, m, list, pt, lo, hi, last, use, own),
         NEW pt2, \A q \in Proc : (HasTables(e, pt2, q) <=> HasTables(e, pt, q)) /\ (HasTables(e, pt, q) => pt2[q] = pt[q])
  PROVE  Layout(e, m, list, pt2, lo, hi, last, use, own)
<1>1. \A q \in Proc : UsesIn(e, pt2, own, q) = UsesIn(e, pt, own, q)
  BY DEF UsesIn
<1>2. AllUses(e, pt2, own) = AllUses(e, pt, own)
  BY <1>1 DEF AllUses, Proc
<1>3. Owns(e, pt2, own)
  BY DEF Layout, Owns
<1>4. \A q \in Proc : HasTables(e, pt2, q) => SpaceIn(e, m, pt2, use, own, q)
  BY DEF Layout, SpaceIn
<1>5. QED  BY <1>2, <1>3, <1>4 DEF Layout

LEMMA NewKernelProcStep ==
  ASSUME OwnEntries, Inv, NewKernelProcHandler
  PROVE  Inv' /\ SameFound(ex', mem, pagetable, mem', pagetable')
<1>1. PICK e : e = "8.UserProcess"
  OBVIOUS
<1>2. /\ ex = e /\ ex' = e /\ active' = active /\ cr3' = cr3 /\ mem' = mem /\ freelist' = freelist
      /\ pagetable[0] = NULL /\ pagetable' = [pagetable EXCEPT ![0] = cr3]
  BY <1>1 DEF NewKernelProcHandler
<1>3. /\ pagetable = [q \in Proc |-> pagetable[q]] /\ KernelDirectory(e, pagetable)
      /\ active \in {Nobody, 0, 1} /\ pagetable[1] = NULL
      /\ active = Nobody /\ cr3 = Entry(SPEDE_DIRECTORY, {})
  BY <1>1, <1>2 DEF Inv, Loaded
<1>4. PICK pt2 : pt2 = pagetable'
  OBVIOUS
<1>5. pt2[0] = cr3 /\ pt2[1] = NULL /\ pt2 = [q \in Proc |-> pt2[q]]
  <2>1. pt2 = [[q \in Proc |-> pagetable[q]] EXCEPT ![0] = cr3]
    BY <1>2, <1>3, <1>4
  <2>2. pt2 = [q \in Proc |-> IF q = 0 THEN cr3 ELSE pagetable[q]]
    BY <2>1 DEF Proc
  <2>3. QED  BY <1>3, <2>2 DEF Proc
<1>6. PICK lo, hi, last, use, own : Layout(e, mem, freelist, pagetable, lo, hi, last, use, own)
  BY <1>1, <1>2 DEF Inv, Pages
<1>7. \A q \in Proc : ~HasTables(e, pt2, q) /\ ~HasTables(e, pagetable, q)
  BY <1>1, <1>3, <1>5 DEF HasTables
<1>8. Layout(e, mem, freelist, pt2, lo, hi, last, use, own)
  BY <1>6, <1>7, LayoutSameTables
<1>9. KernelDirectory(e, pt2) /\ Low(e, mem)
  BY <1>2, <1>3, <1>5 DEF KernelDirectory, Inv, Pages
<1>10. Keeps(mem, mem, use, use, own, own)
  BY KeepsSelf
<1>11. SameFound(e, mem, pagetable, mem, pt2)
  <2>1. ASSUME NEW q \in Proc, NEW va \in Seen
        PROVE  Found(e, mem, pt2[q], q, va) = Found(e, mem, pagetable[q], q, va)
    BY <1>3, <1>6, <1>8, <1>9, <1>10, FoundKept
  <2>2. QED  BY <2>1 DEF SameFound
<1>12. Pages(e, mem, freelist, pt2)
  BY <1>1, <1>8, <1>9 DEF Pages
<1>13. Loaded(e, pt2, active, cr3)
  BY <1>1, <1>3, <1>5, <1>9 DEF Loaded
<1>14. QED  BY <1>2, <1>4, <1>11, <1>12, <1>13 DEF Inv

LEMMA NewUserProcStep ==
  ASSUME OwnEntries, Inv, NewUserProcHandler
  PROVE  Inv' /\ SameFound(ex', mem, pagetable, mem', pagetable')
<1>1. PICK e : e = "8.UserProcess"
  OBVIOUS
<1>2. /\ ex = e /\ ex' = e /\ active' = active /\ cr3' = cr3
      /\ pagetable[0] # NULL /\ pagetable[1] = NULL
  BY <1>1 DEF NewUserProcHandler
<1>3. /\ pagetable = [q \in Proc |-> pagetable[q]] /\ KernelDirectory(e, pagetable)
      /\ active = Nobody /\ cr3 = Entry(SPEDE_DIRECTORY, {})
  BY <1>1, <1>2 DEF Inv, Loaded
<1>4. PICK s, t : s = Cell(mem, freelist, 0) /\ t = UserProcess_setup_pagetable(s)
  OBVIOUS
<1>5. mem' = t.mem /\ freelist' = t.freelist /\ pagetable' = [pagetable EXCEPT ![1] = Entry(t.got, {})]
  BY <1>4 DEF NewUserProcHandler, State, Becomes, Cell
<1>6. PICK lo, hi, last, use, own : Layout(e, mem, freelist, pagetable, lo, hi, last, use, own)
  BY <1>1, <1>2 DEF Inv, Pages
<1>7. ~HasTables(e, pagetable, 1) /\ LowPages(mem) /\ Low(e, mem)
  BY <1>1, <1>2 DEF HasTables, Inv, Pages, Low
<1>8. Room(lo, hi, 5) /\ lo >= 10
  BY <1>1, <1>6, <1>7, UserRoom
<1>9. PICK a, b, c, g, f : Below(a, hi) /\ Below(b, a) /\ Below(c, b) /\ Below(g, c) /\ Below(f, g)
  BY DEF Below
<1>10. s.mem = mem /\ s.freelist = freelist
  BY <1>4 DEF Cell
<1>11. Allocates(s, lo, hi)
  BY <1>6, <1>10 DEF Layout, Allocates
<1>12. AboveTables(lo)
  <2>1. lo \in Nat
    BY <1>11, FreeToSizes DEF Allocates
  <2>2. QED  BY <1>8, <2>1 DEF AboveTables
<1>13. /\ t.got = hi /\ Allocates(t, lo, f) /\ SameBut(s.mem, t.mem, {hi, a, b, c, g})
       /\ t.mem[hi] = WithWord(WithWord(KernelPart(s.mem), STACK[1], Entry(a, USER)), CODE_START[1], Entry(c, USER))
       /\ t.mem[a] = OneWord(STACK[2], Entry(b, USER)) /\ t.mem[b] = ZeroPage
       /\ t.mem[c] = OneWord(CODE_START[2], Entry(g, USER)) /\ t.mem[g] = OneWord(0, CODE)
  <2>1. /\ Allocates(s, lo, hi) /\ AboveTables(lo) /\ Room(lo, hi, 5)
        /\ Below(a, hi) /\ Below(b, a) /\ Below(c, b) /\ Below(g, c) /\ Below(f, g)
        /\ t = UserProcess_setup_pagetable(s)
    BY <1>4, <1>8, <1>9, <1>11, <1>12
  <2>2. QED  BY <2>1, UserProcessSetup
<1>14. /\ SameBut(mem, t.mem, {hi, a, b, c, g})
       /\ Holds(t.mem, hi, UserDirectory(mem, a, c))
       /\ Holds(t.mem, a, OneWord(STACK[2], Entry(b, USER))) /\ Holds(t.mem, b, ZeroPage)
       /\ Holds(t.mem, c, OneWord(CODE_START[2], Entry(g, USER))) /\ Holds(t.mem, g, OneWord(0, CODE))
  BY <1>10, <1>13 DEF Holds, UserDirectory
<1>15. PICK one, two, new, pt2, own2 :
         /\ one = For(For(use, hi, DirectoryUse(1)), a, TableUse(1, STACK[1]))
         /\ two = For(For(one, b, PageUse(1, STACK[1])), c, TableUse(1, CODE_START[1]))
         /\ new = For(two, g, PageUse(1, CODE_START[1]))
         /\ pt2 = Directed(pagetable, 1, hi) /\ own2 = UserOwn(own)
  OBVIOUS
<1>16. /\ Layout(e, t.mem, t.freelist, pt2, lo, f, last, new, own2)
       /\ Keeps(mem, t.mem, use, new, own, own2) /\ LowPages(t.mem)
  BY <1>1, <1>6, <1>7, <1>9, <1>13, <1>14, <1>15, UserLayout
<1>17. pagetable' = pt2 /\ pt2 = [q \in Proc |-> pt2[q]] /\ pt2[0] = pagetable[0]
  <2>1. pt2 = [q \in Proc |-> IF q = 1 THEN Entry(hi, {}) ELSE pagetable[q]]
    BY <1>15 DEF Directed
  <2>2. pagetable' = [[q \in Proc |-> pagetable[q]] EXCEPT ![1] = Entry(hi, {})]
    BY <1>3, <1>5, <1>13
  <2>3. pagetable' = pt2
    BY <2>1, <2>2 DEF Proc
  <2>4. pt2 = [q \in Proc |-> pt2[q]] /\ pt2[0] = pagetable[0]
    BY <2>1 DEF Proc
  <2>5. QED  BY <2>3, <2>4
<1>18. KernelDirectory(e, pt2) /\ Low(e, t.mem)
  BY <1>3, <1>16, <1>17 DEF KernelDirectory, Low
<1>19. SameFound(e, mem, pagetable, t.mem, pt2)
  <2>1. ASSUME NEW q \in Proc, NEW va \in Seen
        PROVE  Found(e, t.mem, pt2[q], q, va) = Found(e, mem, pagetable[q], q, va)
    BY <1>3, <1>6, <1>7, <1>16, <1>18, FoundKept
  <2>2. QED  BY <2>1 DEF SameFound
<1>20. Pages(e, t.mem, t.freelist, pt2)
  BY <1>1, <1>16, <1>18 DEF Pages
<1>21. Loaded(e, pt2, Nobody, cr3)
  BY <1>1, <1>2, <1>3, <1>17, <1>18 DEF Loaded
<1>22. QED  BY <1>2, <1>3, <1>5, <1>17, <1>19, <1>20, <1>21 DEF Inv

LEMMA SwitchStep ==
  ASSUME Inv, Start \/ context_switch
  PROVE  Inv' /\ SameFound(ex', mem, pagetable, mem', pagetable')
<1>1. mem' = mem /\ pagetable' = pagetable /\ freelist' = freelist /\ ex' = ex
  BY DEF Start, context_switch
<1>2. Pages(ex', mem', freelist', pagetable')
  BY <1>1 DEF Inv, Pages
<1>3. SameFound(ex', mem, pagetable, mem', pagetable')
  BY <1>1 DEF SameFound
<1>4. pagetable[0] # NULL /\ pagetable[1] # NULL
  BY DEF Start, context_switch, Created, Proc
<1>5. /\ ex \in {"5.PageFault", "6.MemPolicy", "8.UserProcess"} /\ ex # "5.PageFault"
      /\ pagetable = [q \in Proc |-> pagetable[q]] /\ KernelDirectory(ex, pagetable)
  BY DEF Inv, Loaded, Start, context_switch
<1>6. active' \in {0, 1} /\ cr3' = pagetable[active']
  <2>1. CASE Start
    <3>1. active' = 0 /\ cr3' = cr3 /\ active = Nobody /\ ex = "8.UserProcess"
      BY <2>1 DEF Start
    <3>2. cr3 = Entry(SPEDE_DIRECTORY, {}) /\ pagetable[0] \in {NULL, Entry(SPEDE_DIRECTORY, {})}
      BY <3>1 DEF Inv, Loaded, KernelDirectory
    <3>3. QED  BY <1>4, <3>1, <3>2
  <2>2. CASE context_switch
    BY <2>2 DEF context_switch, NextActive, Load
  <2>3. QED  BY <2>1, <2>2
<1>7. active' # Nobody
  BY <1>6 DEF Nobody
<1>8. Loaded(ex', pagetable', active', cr3')
  BY <1>1, <1>4, <1>5, <1>6, <1>7 DEF Loaded
<1>9. QED  BY <1>2, <1>3, <1>8 DEF Inv

-----------------------------------------------------------------------------
(***************************************************************************)
(* The steps of a process that stores.                                     *)
(***************************************************************************)
\* One address of one process holds what it stored.
StoredFound(e, m, pt, n, p, va, word) ==
  \A q \in Proc, b \in Seen :
    Found(e, n, pt[q], q, b) = IF q = p /\ b = va THEN word ELSE Found(e, m, pt[q], q, b)

\* Who is active, and which addresses it uses.
LEMMA ActiveUses ==
  ASSUME Inv, active # Nobody, NEW va \in Used(active)
  PROVE  /\ active \in Proc /\ pagetable[active] # NULL /\ cr3 = pagetable[active]
         /\ Needed(active) = NeededBy(ex, active) /\ va \in Seen
         /\ ex = "5.PageFault" => active = 0 /\ va = X /\ cr3 = Entry(SPEDE_DIRECTORY, {})
         /\ ex = "6.MemPolicy" => va \in Demand /\ HasTables(ex, pagetable, active)
         /\ ex = "8.UserProcess" => active = 1
<1>1. /\ active \in Proc /\ pagetable[active] # NULL /\ cr3 = pagetable[active]
      /\ ex \in {"5.PageFault", "6.MemPolicy", "8.UserProcess"}
      /\ ex = "5.PageFault" => active = 0 /\ pagetable[0] = Entry(SPEDE_DIRECTORY, {})
  BY DEF Inv, Loaded, Proc
<1>2. Needed(active) = NeededBy(ex, active)
  BY DEF Needed, Ring3, NeededBy
<1>3. CASE ex = "5.PageFault"
  <2>1. va = X
    BY <1>1, <1>3 DEF Used
  <2>2. QED  BY <1>1, <1>2, <1>3, <2>1, FaultPages
<1>4. CASE ex = "6.MemPolicy"
  <2>1. va \in Demand
    BY <1>4 DEF Used, Demand
  <2>2. HasTables(ex, pagetable, active)
    BY <1>1, <1>4 DEF HasTables
  <2>3. QED  BY <1>1, <1>2, <1>4, <2>1, <2>2, SeenFacts
<1>5. CASE ex = "8.UserProcess"
  <2>1. active = 1 /\ va = STACK
    BY <1>5 DEF Used
  <2>2. QED  BY <1>1, <1>2, <1>5, <2>1, SeenFacts
<1>6. QED  BY <1>1, <1>3, <1>4, <1>5

LEMMA StoreStep ==
  ASSUME OwnEntries, Inv, NEW va, NEW v \in Value, Store(va, v)
  PROVE  Inv' /\ active \in Proc /\ va \in Seen
           /\ StoredFound(ex', mem, pagetable, mem', active, va, Data(v)) /\ pagetable' = pagetable
<1>1. PICK e, p, to, word, n :
        /\ e = ex /\ p = active /\ to = Translated(mem, cr3, va, Needed(active)) /\ word = Data(v)
        /\ n = Worded(mem, to, 0, word)
  OBVIOUS
<1>2. /\ ex' = e /\ mem' = n /\ freelist' = freelist /\ pagetable' = pagetable /\ active' = active /\ cr3' = cr3
      /\ active # Nobody /\ va \in Used(active) /\ to # Nobody
  BY <1>1 DEF Store, Worded
<1>3. /\ p \in Proc /\ pagetable[p] # NULL /\ cr3 = pagetable[p]
      /\ Needed(active) = NeededBy(e, p) /\ va \in Seen
      /\ e = "5.PageFault" => p = 0 /\ va = X /\ cr3 = Entry(SPEDE_DIRECTORY, {})
  BY <1>1, <1>2, ActiveUses
<1>4. word \in Word
  BY <1>1, WordFacts
<1>5. Loaded(e, pagetable, active, cr3) /\ Pages(e, mem, freelist, pagetable)
  BY <1>1 DEF Inv
<1>6. Pages(e, n, freelist, pagetable) /\ StoredFound(e, mem, pagetable, n, p, va, word)
  <2>1. CASE e = "5.PageFault"
    <3>1. FaultShape(mem) /\ pagetable[0] = Entry(SPEDE_DIRECTORY, {}) /\ pagetable[1] = NULL
      BY <1>5, <2>1 DEF Pages, Loaded
    <3>2. Needed(active) = KERNEL
      BY <1>3, <2>1 DEF NeededBy
    <3>3. Mapped(mem) /\ to = page
      BY <1>1, <1>2, <1>3, <2>1, <3>1, <3>2, FaultTranslated
    <3>4. FaultShape(n) /\ Mapped(n) /\ n[page][0] = word
      BY <1>1, <1>4, <3>1, <3>3, FaultStored
    <3>5. ASSUME NEW q \in Proc, NEW b \in Seen
          PROVE  Found(e, n, pagetable[q], q, b) = IF q = p /\ b = va THEN word ELSE Found(e, mem, pagetable[q], q, b)
      <4>1. CASE q = 0
        <5>1. PICK w : w = Entry(SPEDE_DIRECTORY, {}) /\ pagetable[q] = w
          BY <3>1, <4>1
        <5>2. Found(e, n, w, q, b) = IF Mapped(n) /\ b = X THEN n[page][0] ELSE First(b)
          BY <2>1, <3>4, <5>1, FaultFound
        <5>3. Found(e, mem, w, q, b) = IF Mapped(mem) /\ b = X THEN mem[page][0] ELSE First(b)
          BY <2>1, <3>1, <5>1, FaultFound
        <5>4. QED  BY <1>3, <2>1, <3>3, <3>4, <4>1, <5>1, <5>2, <5>3
      <4>2. CASE q # 0
        <5>1. q = 1 /\ pagetable[q] = NULL /\ q # p
          BY <1>3, <2>1, <3>1, <4>2 DEF Proc
        <5>2. QED  BY <5>1 DEF Found
      <4>3. QED  BY <4>1, <4>2
    <3>6. QED  BY <2>1, <3>4, <3>5 DEF Pages, StoredFound, Low
  <2>2. CASE e # "5.PageFault"
    <3>1. PICK lo, hi, last, use, own : Layout(e, mem, freelist, pagetable, lo, hi, last, use, own)
      BY <1>5, <2>2 DEF Pages
    <3>2. Low(e, mem) /\ KernelDirectory(e, pagetable)
      BY <1>5 DEF Pages, Loaded
    <3>3. Translated(mem, pagetable[p], va, NeededBy(e, p)) = to
      BY <1>1, <1>3
    <3>4. va \in own[p]
      <4>1. ASSUME va \notin own[p] PROVE FALSE
        <5>1. Translated(mem, pagetable[p], va, NeededBy(e, p)) = Nobody
          BY <1>3, <3>1, <3>2, <4>1, FoundNone
        <5>2. QED  BY <1>2, <3>3, <5>1
      <4>2. QED  BY <4>1
    <3>5. PICK r \in Page : use[r] = PageUse(p, va[1])
      BY <1>3, <3>1, <3>4, FoundOwn
    <3>6. to = r
      <4>1. Translated(mem, pagetable[p], va, USER) = r /\ Translated(mem, pagetable[p], va, KERNEL) = r
        BY <1>3, <3>1, <3>4, <3>5, FoundOwn
      <4>2. QED  BY <3>3, <4>1 DEF NeededBy
    <3>7. n = Worded(mem, r, 0, word)
      BY <1>1, <3>6
    <3>8. /\ Layout(e, n, freelist, pagetable, lo, hi, last, use, own) /\ Low(e, n)
          /\ \A q \in Proc, b \in Seen :
               Found(e, n, pagetable[q], q, b) = IF q = p /\ b = va THEN word ELSE Found(e, mem, pagetable[q], q, b)
      BY <1>3, <1>4, <3>1, <3>2, <3>4, <3>5, <3>7, FoundStored
    <3>9. QED  BY <2>2, <3>8 DEF Pages, StoredFound
  <2>3. QED  BY <2>1, <2>2
<1>7. QED  BY <1>1, <1>2, <1>3, <1>5, <1>6 DEF Inv

LEMMA PageFaultStep ==
  ASSUME OwnEntries, Inv, NEW va, Fault(va), ex = "5.PageFault"
  PROVE  Inv' /\ SameFound(ex', mem, pagetable, mem', pagetable')
<1>1. PICK e : e = "5.PageFault"
  OBVIOUS
<1>2. PICK s : s = Cell(mem, freelist, 0)
  OBVIOUS
<1>3. /\ active # Nobody /\ va \in Used(active) /\ Translated(mem, cr3, va, Needed(active)) = Nobody
      /\ Becomes(PageFaultHandler(State, va)) /\ cr3' = pagetable[active] /\ ex = e /\ ex' = e
      /\ pagetable' = pagetable /\ active' = active
  BY <1>1 DEF Fault, Load
<1>4. /\ active = 0 /\ va = X /\ cr3 = Entry(SPEDE_DIRECTORY, {}) /\ cr3 = pagetable[active]
      /\ Needed(active) = KERNEL
  BY <1>3, ActiveUses DEF NeededBy
<1>5. Loaded(e, pagetable, active, cr3) /\ FaultShape(mem)
  BY <1>1, <1>3 DEF Inv, Pages
<1>6. Unmapped(mem)
  <2>1. ~Mapped(mem)
    <3>1. ASSUME Mapped(mem) PROVE FALSE
      <4>1. Translated(mem, cr3, va, KERNEL) = page
        BY <1>4, <1>5, <3>1, FaultPages, FaultTranslated
      <4>2. QED  BY <1>3, <1>4, <4>1 DEF page, Nobody
    <3>2. QED  BY <3>1
  <2>2. QED  BY <1>5, <2>1 DEF FaultShape
<1>7. PICK mid, n : /\ mid = Worded(mem, pg_table, X[2], Entry(page, KERNEL))
                    /\ n = Worded(mid, SPEDE_DIRECTORY, X[1], Entry(pg_table, KERNEL))
  OBVIOUS
<1>8. PageFaultHandler(State, va) = Cell(n, freelist, 0)
  <2>1. PageOf(cr3) = SPEDE_DIRECTORY
    BY <1>4, FirstMemoryIs, WordFacts, FlagFacts
  <2>2. State = s
    BY <1>2 DEF State, Cell
  <2>3. Set(s, pg_table, X[2], Entry(page, KERNEL)) = Cell(mid, freelist, 0)
    BY <1>2, <1>7, SetIs
  <2>4. Set(Cell(mid, freelist, 0), SPEDE_DIRECTORY, X[1], Entry(pg_table, KERNEL)) = Cell(n, freelist, 0)
    BY <1>7, SetIs
  <2>5. QED  BY <1>4, <2>1, <2>2, <2>3, <2>4 DEF PageFaultHandler
<1>9. mem' = n /\ freelist' = freelist
  BY <1>3, <1>8 DEF Becomes, Cell
<1>10. FaultShape(n) /\ Mapped(n) /\ n[page] = ZeroPage
  <2>1. FaultMemory(mem, n)
    BY <1>7 DEF FaultMemory
  <2>2. QED  BY <1>5, <1>6, <2>1, FaultHandled
<1>11. ~Mapped(mem)
  BY <1>6, FaultPages, WordFacts, FlagFacts DEF Mapped, Unmapped
<1>12. ASSUME NEW q \in Proc, NEW b \in Seen
       PROVE  Found(e, n, pagetable[q], q, b) = Found(e, mem, pagetable[q], q, b)
  <2>1. pagetable[0] = Entry(SPEDE_DIRECTORY, {}) /\ pagetable[1] = NULL
    BY <1>1, <1>5 DEF Loaded
  <2>2. CASE q = 0
    <3>1. PICK w : w = Entry(SPEDE_DIRECTORY, {}) /\ pagetable[q] = w
      BY <2>1, <2>2
    <3>2. Found(e, n, w, q, b) = IF Mapped(n) /\ b = X THEN n[page][0] ELSE First(b)
      BY <1>1, <1>10, <3>1, FaultFound
    <3>3. Found(e, mem, w, q, b) = IF Mapped(mem) /\ b = X THEN mem[page][0] ELSE First(b)
      BY <1>1, <1>5, <3>1, FaultFound
    <3>4. n[page][0] = First(X)
      BY <1>10, FaultPages, ZeroPageTyped DEF First
    <3>5. QED  BY <1>11, <3>1, <3>2, <3>3, <3>4
  <2>3. CASE q # 0
    <3>1. pagetable[q] = NULL
      BY <2>1, <2>3 DEF Proc
    <3>2. QED  BY <3>1 DEF Found
  <2>4. QED  BY <2>2, <2>3
<1>13. Pages(e, n, freelist, pagetable)
  BY <1>1, <1>10 DEF Pages, Low
<1>14. QED  BY <1>3, <1>4, <1>5, <1>9, <1>12, <1>13 DEF Inv, SameFound

LEMMA MemPolicyFaultStep ==
  ASSUME OwnEntries, EnoughPages, Inv, NEW va, Fault(va), ex = "6.MemPolicy"
  PROVE  Inv' /\ SameFound(ex', mem, pagetable, mem', pagetable')
<1>1. PICK e : e = "6.MemPolicy"
  OBVIOUS
<1>2. PICK p, s, t : p = active /\ s = Cell(mem, freelist, 0) /\ t = MemPolicy_page_fault_handler(s, va)
  OBVIOUS
<1>3. /\ p # Nobody /\ va \in Used(active) /\ Translated(mem, cr3, va, Needed(active)) = Nobody
      /\ Becomes(t) /\ cr3' = pagetable[p] /\ ex = e /\ ex' = e
      /\ pagetable' = pagetable /\ active' = active
  BY <1>1, <1>2 DEF Fault, Load, State, Cell
<1>4. mem' = t.mem /\ freelist' = t.freelist
  BY <1>3 DEF Becomes
<1>5. /\ p \in Proc /\ pagetable[p] # NULL /\ cr3 = pagetable[p]
      /\ Needed(active) = NeededBy(e, p) /\ va \in Demand /\ HasTables(e, pagetable, p)
  BY <1>1, <1>2, <1>3, ActiveUses
<1>6. Loaded(e, pagetable, active, cr3) /\ Pages(e, mem, freelist, pagetable)
  BY <1>3 DEF Inv
<1>7. PICK lo, hi, last, use, own : Layout(e, mem, freelist, pagetable, lo, hi, last, use, own)
  BY <1>1, <1>6 DEF Pages
<1>8. /\ FreeTo(mem, freelist, lo, hi) /\ Owns(e, pagetable, own) /\ mem \in Memory
      /\ Assigned(use, hi, last, AllUses(e, pagetable, own)) /\ SpaceIn(e, mem, pagetable, use, own, p)
  BY <1>5, <1>7 DEF Layout
<1>9. va \notin own[p]
  <2>1. ASSUME va \in own[p] PROVE FALSE
    <3>1. PICK r \in Page : use[r] = PageUse(p, va[1])
      BY <1>5, <1>7, <2>1, FoundOwn
    <3>2. Translated(mem, pagetable[p], va, USER) = r /\ Translated(mem, pagetable[p], va, KERNEL) = r
      BY <1>5, <1>7, <2>1, <3>1, FoundOwn
    <3>3. r = Nobody
      BY <1>3, <1>5, <3>2 DEF NeededBy
    <3>4. QED  BY <3>3, Sizes DEF Nobody
  <2>2. QED  BY <2>1
<1>10. Room(lo, hi, 2)
  BY <1>1, <1>5, <1>7, <1>9, RoomLeft
<1>11. PICK d \in Page : pagetable[p] = Entry(d, {}) /\ Space(e, mem, d, use, p, own[p])
  BY <1>8 DEF SpaceIn
<1>12. PageOf(pagetable[active]) = d
  BY <1>2, <1>11, WordFacts, FlagFacts
<1>13. hi < d
  <2>1. use[d] # Nothing
    BY <1>11, UseFacts DEF Space
  <2>2. QED  BY <1>8, <1>11, <2>1 DEF Assigned
<1>14. PICK i \in Slots, j \in Slots : Indexed(va, i, j)
  BY <1>5, AddressFacts DEF Indexed
<1>15. IsNull(mem, d, i)
  <2>1. i = va[1] /\ va[1] >= 2
    BY <1>5, <1>14, AddressFacts DEF Indexed
  <2>2. i \notin KernelSlots(e)
    <3>1. i \in Nat
      BY <1>14, Sizes
    <3>2. i # 0 /\ i # 1
      BY <2>1, <3>1
    <3>3. QED  BY <1>1, <3>2 DEF KernelSlots
  <2>3. \A a \in own[p] : a[1] # i
    <3>1. own[p] \subseteq Demand
      BY <1>1, <1>5, <1>8 DEF Owns
    <3>2. QED  BY <1>5, <1>9, <2>1, <3>1 DEF OwnEntries
  <2>4. QED  BY <1>11, <1>14, <2>2, <2>3 DEF Space, IsNull
<1>16. PICK a, c : Below(a, hi) /\ Below(c, a)
  BY DEF Below
<1>17. s.mem = mem /\ s.freelist = freelist
  BY <1>2 DEF Cell
<1>18. Allocates(s, lo, hi) /\ IsNull(s.mem, d, i)
  BY <1>8, <1>15, <1>17 DEF Allocates
<1>19. Maps(s, t, d, i, j, hi, a) /\ Allocates(t, lo, c)
  BY <1>2, <1>10, <1>12, <1>13, <1>14, <1>16, <1>18, FaultMaps
<1>20. Maps(s, t, d, va[1], va[2], hi, a)
  BY <1>14, <1>19 DEF Indexed
<1>21. PICK new, own2 : /\ new = For(For(use, hi, TableUse(p, va[1])), a, PageUse(p, va[1]))
                        /\ own2 = Grown(own, p, va)
  OBVIOUS
<1>22. pagetable[p] = Entry(d, {})
  BY <1>11
<1>23. /\ Layout(e, t.mem, t.freelist, pagetable, lo, c, last, new, own2)
       /\ Keeps(mem, t.mem, use, new, own, own2)
  BY <1>1, <1>5, <1>7, <1>9, <1>10, <1>16, <1>17, <1>19, <1>20, <1>21, <1>22, FaultLayout
<1>24. KernelDirectory(e, pagetable) /\ Low(e, mem) /\ Low(e, t.mem)
  BY <1>1 DEF KernelDirectory, Low
<1>25. SameFound(e, mem, pagetable, t.mem, pagetable)
  <2>1. ASSUME NEW q \in Proc, NEW b \in Seen
        PROVE  Found(e, t.mem, pagetable[q], q, b) = Found(e, mem, pagetable[q], q, b)
    BY <1>7, <1>23, <1>24, FoundKept
  <2>2. QED  BY <2>1 DEF SameFound
<1>26. Pages(e, t.mem, t.freelist, pagetable)
  BY <1>1, <1>23, <1>24 DEF Pages
<1>27. QED  BY <1>3, <1>4, <1>5, <1>6, <1>25, <1>26 DEF Inv

-----------------------------------------------------------------------------
LEMMA InvNext == ASSUME OwnEntries, EnoughPages PROVE Inv /\ [Next]_vars => Inv'
<1> SUFFICES ASSUME Inv, [Next]_vars PROVE Inv'
  OBVIOUS
<1>1. CASE init_proc
  BY <1>1, InitProcStep
<1>2. CASE NewKernelProcHandler
  BY <1>2, NewKernelProcStep
<1>3. CASE NewUserProcHandler
  BY <1>3, NewUserProcStep
<1>4. CASE Start \/ context_switch
  BY <1>4, SwitchStep
<1>5. ASSUME NEW va \in Addresses, Fault(va) PROVE Inv'
  <2>1. ex = "5.PageFault" \/ ex = "6.MemPolicy"
    BY <1>5 DEF Fault, Inv, Loaded
  <2>2. QED  BY <1>5, <2>1, PageFaultStep, MemPolicyFaultStep
<1>6. ASSUME NEW va \in Addresses, NEW v \in Value, Store(va, v) PROVE Inv'
  BY <1>6, StoreStep
<1>7. CASE UNCHANGED vars
  BY <1>7 DEF vars, Inv
<1>8. QED  BY <1>1, <1>2, <1>3, <1>4, <1>5, <1>6, <1>7 DEF Next

\* Memory is laid out as Inv says in every state: the free pages are the lowest of the
\* pool, linked downward, and each of the others has one use.
THEOREM Invariance == ASSUME OwnEntries, EnoughPages PROVE Spec => []Inv
<1>1. Inv /\ [Next]_vars => Inv'
  BY InvNext
<1>2. QED  BY <1>1, InvInit, PTL DEF Spec

\* With the address that the processes of the code use, and no other, there is nothing to assume.
LEMMA AsInTheCode == Others = {} => OwnEntries /\ EnoughPages
<1> SUFFICES ASSUME Others = {} PROVE OwnEntries /\ EnoughPages
  OBVIOUS
<1>1. Demand = {X}
  BY DEF Demand
<1>2. Cardinality({X}) = 1
  BY FS_Singleton
<1>3. QED  BY <1>1, <1>2, Sizes DEF OwnEntries, EnoughPages

-----------------------------------------------------------------------------
(***************************************************************************)
(* The kernel stays mapped.                                                *)
(***************************************************************************)
LEMMA KernelMapped == ASSUME OwnEntries PROVE Inv => KernelStaysMapped
<1> SUFFICES ASSUME Inv, NEW p \in Proc, pagetable[p] # NULL, NEW d, d = PageOf(pagetable[p])
             PROVE  IF ex = "6.MemPolicy"
                    THEN \A q \in Page :
                           LET va == <<q \div ENTRIES, q % ENTRIES>>
                           IN  /\ Translated(mem, pagetable[p], va, KERNEL) = q
                               /\ Translated(mem, pagetable[p], va, USER) = Nobody
                    ELSE \A i \in KernelEntries : mem[d][i] = FirstMemory[SPEDE_DIRECTORY][i]
  BY DEF KernelStaysMapped
<1>1. Loaded(ex, pagetable, active, cr3) /\ Pages(ex, mem, freelist, pagetable)
  BY DEF Inv
<1>2. CASE ex = "5.PageFault"
  <2>1. pagetable[p] = Entry(SPEDE_DIRECTORY, {}) /\ FaultShape(mem)
    BY <1>1, <1>2 DEF Loaded, Pages, Proc
  <2>2. d = SPEDE_DIRECTORY
    BY <2>1, FirstMemoryIs, WordFacts, FlagFacts
  <2>3. \A i \in KernelEntries : mem[d][i] = FirstMemory[SPEDE_DIRECTORY][i]
    BY <2>1, <2>2, FirstMemoryIs DEF FaultShape
  <2>4. QED  BY <1>2, <2>3
<1>3. CASE ex = "6.MemPolicy"
  <2>1. PICK e : e = ex
    OBVIOUS
  <2>2. PICK lo, hi, last, use, own : Layout(e, mem, freelist, pagetable, lo, hi, last, use, own)
    BY <1>1, <1>3, <2>1 DEF Pages
  <2>3. HasTables(e, pagetable, p)
    BY <1>3, <2>1 DEF HasTables
  <2>4. PICK x \in Page : pagetable[p] = Entry(x, {}) /\ Space(e, mem, x, use, p, own[p])
    BY <2>2, <2>3 DEF Layout, SpaceIn
  <2>5. PICK word : word = pagetable[p] /\ PageOf(word) = x
    BY <2>4, WordFacts, FlagFacts
  <2>6. Identity(mem, x, use, p, 0) /\ Identity(mem, x, use, p, 1)
    BY <1>3, <2>1, <2>4 DEF Space, KernelIn
  <2>7. ASSUME NEW q \in Page, NEW va, va = <<q \div ENTRIES, q % ENTRIES>>
        PROVE  Translated(mem, word, va, KERNEL) = q /\ Translated(mem, word, va, USER) = Nobody
    <3>1. q \in Nat /\ q < 2 * ENTRIES /\ ENTRIES \in Nat /\ ENTRIES >= 20
      BY Sizes
    <3>2. CASE q < ENTRIES
      <4>1. q \div ENTRIES = 0 /\ q % ENTRIES = q /\ q + 0 * ENTRIES = q
        BY <3>1, <3>2
      <4>2. q \in Slots
        BY <3>1, <3>2, Sizes
      <4>3. va = <<0, q>>
        BY <2>7, <4>1
      <4>4. QED  BY <2>5, <2>6, <4>1, <4>2, <4>3, TranslatedIdentity
    <3>3. CASE q >= ENTRIES
      <4>1. PICK i \in Slots : i = q - ENTRIES
        BY <3>1, <3>3, Sizes
      <4>2. i \in Nat /\ i < ENTRIES /\ q = i + ENTRIES
        BY <3>1, <4>1, Sizes
      <4>3. q \div ENTRIES = 1 /\ q % ENTRIES = i /\ i + 1 * ENTRIES = q
        BY <3>1, <4>2
      <4>4. va = <<1, i>>
        BY <2>7, <4>3
      <4>5. QED  BY <2>5, <2>6, <4>1, <4>3, <4>4, TranslatedIdentity
    <3>4. QED  BY <3>1, <3>2, <3>3
  <2>8. QED  BY <1>3, <2>5, <2>7
<1>4. CASE ex = "8.UserProcess"
  <2>1. PICK e : e = ex
    OBVIOUS
  <2>2. CASE p = 0
    <3>1. pagetable[p] = Entry(SPEDE_DIRECTORY, {})
      BY <1>1, <1>4, <2>2 DEF Loaded, KernelDirectory
    <3>2. d = SPEDE_DIRECTORY
      BY <3>1, FirstMemoryIs, WordFacts, FlagFacts
    <3>3. LowPages(mem) /\ SPEDE_DIRECTORY < 10
      BY <1>1, <1>4 DEF Pages, Low, SPEDE_DIRECTORY
    <3>4. mem[d] = FirstMemory[SPEDE_DIRECTORY]
      BY <3>2, <3>3, FirstMemoryIs DEF LowPages
    <3>5. QED  BY <1>4, <3>4
  <2>3. CASE p = 1
    <3>1. PICK lo, hi, last, use, own : Layout(e, mem, freelist, pagetable, lo, hi, last, use, own)
      BY <1>1, <1>4, <2>1 DEF Pages
    <3>2. HasTables(e, pagetable, p)
      BY <2>3 DEF HasTables
    <3>3. PICK x \in Page : pagetable[p] = Entry(x, {}) /\ Space(e, mem, x, use, p, own[p])
      BY <3>1, <3>2 DEF Layout, SpaceIn
    <3>4. d = x
      BY <3>3, WordFacts, FlagFacts
    <3>5. \A i \in KernelEntries : mem[d][i] = FirstMemory[SPEDE_DIRECTORY][i]
      BY <1>4, <2>1, <3>3, <3>4, FirstMemoryIs DEF Space, KernelIn
    <3>6. QED  BY <1>4, <3>5
  <2>4. QED  BY <2>2, <2>3 DEF Proc
<1>5. QED  BY <1>1, <1>2, <1>3, <1>4 DEF Loaded

\* Every directory maps the kernel, to where it is and closed to user mode.
THEOREM KernelIsMapped == ASSUME OwnEntries, EnoughPages PROVE Spec => []KernelStaysMapped
<1>1. Inv => KernelStaysMapped
  BY KernelMapped
<1>2. QED  BY <1>1, Invariance, PTL

-----------------------------------------------------------------------------
(***************************************************************************)
(* Every page has one use.                                                 *)
(***************************************************************************)
\* The tables that the directory leads to.
LEMMA TableIs ==
  ASSUME NEW e \in {"6.MemPolicy", "8.UserProcess"}, NEW m, NEW d, NEW use, NEW p, NEW own,
         Space(e, m, d, use, p, own), Separate(e, own), NEW i \in Slots
  PROVE  /\ i \in TableSlots(e, own) =>
              /\ \E q \in Page : PageOf(m[d][i]) = q /\ use[q] = TableUse(p, i)
              /\ FlagsOf(m[d][i]) # {} /\ (e = "8.UserProcess" => PAGE_USER \in FlagsOf(m[d][i]))
         /\ i \notin TableSlots(e, own) =>
              FlagsOf(m[d][i]) = {} \/ (e = "8.UserProcess" /\ PAGE_USER \notin FlagsOf(m[d][i]))
<1>1. ASSUME NEW va \in own, va[1] = i
      PROVE  /\ \E q \in Page : PageOf(m[d][i]) = q /\ use[q] = TableUse(p, i)
             /\ FlagsOf(m[d][i]) # {} /\ PAGE_USER \in FlagsOf(m[d][i])
  <2>1. Leading(m, d, use, p, va)
    BY DEF Space
  <2>2. PICK q \in Page : m[d][i] = Entry(q, USER) /\ use[q] = TableUse(p, i)
    BY <1>1, <2>1 DEF Leading, Leads
  <2>3. PageOf(m[d][i]) = q /\ FlagsOf(m[d][i]) = USER
    BY <2>2, WordFacts, FlagFacts
  <2>4. QED  BY <2>2, <2>3, FlagFacts
<1>2. CASE e = "6.MemPolicy"
  <2>1. ASSUME i \in {0, 1}
        PROVE  /\ \E q \in Page : PageOf(m[d][i]) = q /\ use[q] = TableUse(p, i)
               /\ FlagsOf(m[d][i]) # {}
    <3>1. Identity(m, d, use, p, i)
      BY <1>2, <2>1 DEF Space, KernelIn
    <3>2. PICK q \in Page : m[d][i] = Entry(q, KERNEL) /\ use[q] = TableUse(p, i)
      BY <3>1 DEF Identity
    <3>3. PageOf(m[d][i]) = q /\ FlagsOf(m[d][i]) = KERNEL
      BY <3>2, WordFacts, FlagFacts
    <3>4. QED  BY <3>2, <3>3, FlagFacts
  <2>2. ASSUME i \notin {0, 1}, \A va \in own : va[1] # i PROVE FlagsOf(m[d][i]) = {}
    <3>1. m[d][i] = NULL
      BY <1>2, <2>2 DEF Space, KernelSlots
    <3>2. QED  BY <3>1, WordFacts
  <2>3. i \in TableSlots(e, own) <=> i \in {0, 1} \/ \E va \in own : va[1] = i
    BY <1>2 DEF TableSlots
  <2>4. QED  BY <1>1, <1>2, <2>1, <2>2, <2>3
<1>3. CASE e = "8.UserProcess"
  <2>1. i \in TableSlots(e, own) <=> \E va \in own : va[1] = i
    BY <1>3 DEF TableSlots
  <2>2. ASSUME i \in KernelEntries PROVE PAGE_USER \notin FlagsOf(m[d][i])
    <3>1. PICK q \in Page : m[d][i] = Entry(q, KERNEL)
      BY <1>3, <2>2, FirstMemoryIs DEF Space, KernelIn
    <3>2. QED  BY <3>1, WordFacts, FlagFacts
  <2>3. ASSUME i \notin KernelEntries, \A va \in own : va[1] # i PROVE FlagsOf(m[d][i]) = {}
    <3>1. m[d][i] = NULL
      BY <1>3, <2>3 DEF Space, KernelSlots
    <3>2. QED  BY <3>1, WordFacts
  <2>4. QED  BY <1>1, <1>3, <2>1, <2>2, <2>3
<1>4. QED  BY <1>2, <1>3

\* Which addresses user mode reaches, where p's directory says.
LEMMA MappingIs ==
  ASSUME NEW e \in {"6.MemPolicy", "8.UserProcess"}, NEW m, NEW d, NEW use, NEW p, NEW own,
         Space(e, m, d, use, p, own), Separate(e, own), NEW word, PageOf(word) = d, NEW va \in Slots \X Slots
  PROVE  /\ va \in own => \E r \in Page : Translated(m, word, va, USER) = r /\ use[r] = PageUse(p, va[1])
         /\ va \notin own => Translated(m, word, va, USER) = Nobody
<1>1. va[1] \in Slots
  OBVIOUS
<1>2. ASSUME va \in own PROVE \E r \in Page : Translated(m, word, va, USER) = r /\ use[r] = PageUse(p, va[1])
  <2>1. Leading(m, d, use, p, va)
    BY <1>2 DEF Space
  <2>2. PICK q \in Page, r \in Page : Leads(m, d, va, q, r) /\ use[r] = PageUse(p, va[1])
    BY <2>1 DEF Leading
  <2>3. USER \subseteq USER
    OBVIOUS
  <2>4. Translated(m, word, va, USER) = r
    BY <2>2, <2>3, TranslatedLeads
  <2>5. QED  BY <2>2, <2>4
<1>3. ASSUME va \notin own PROVE Translated(m, word, va, USER) = Nobody
  <2>1. CASE va[1] \in KernelSlots(e)
    <3>1. \E q \in Page : m[d][va[1]] = Entry(q, KERNEL)
      <4>1. CASE e = "6.MemPolicy"
        <5>1. va[1] \in {0, 1}
          BY <2>1, <4>1 DEF KernelSlots
        <5>2. Identity(m, d, use, p, va[1])
          BY <4>1, <5>1 DEF Space, KernelIn
        <5>3. QED  BY <5>2 DEF Identity
      <4>2. CASE e = "8.UserProcess"
        BY <2>1, <4>2, FirstMemoryIs DEF Space, KernelIn, KernelSlots
      <4>3. QED  BY <4>1, <4>2
    <3>2. QED  BY <3>1, TranslatedKernel
  <2>2. CASE va[1] \notin KernelSlots(e)
    <3>1. own \subseteq Slots \X Slots /\ USER # {}
      BY FlagFacts DEF Separate
    <3>2. PICK flags : flags = USER /\ flags # {}
      BY <3>1
    <3>3. Translated(m, word, va, flags) = Nobody
      BY <1>3, <2>2, <3>1, <3>2, TranslatedNone
    <3>4. QED  BY <3>2, <3>3
  <2>3. QED  BY <2>1, <2>2
<1>4. QED  BY <1>2, <1>3

\* The pages of a process are those that have its uses.
LEMMA PagesOfIs ==
  ASSUME OwnEntries, NEW e, e = ex, NEW lo, NEW hi, NEW last, NEW use, NEW own,
         Layout(e, mem, freelist, pagetable, lo, hi, last, use, own), NEW p \in Proc
  PROVE  /\ HasSpace(p) <=> HasTables(e, pagetable, p)
         /\ PagesOf(p) = {q \in Page : use[q] \in UsesIn(e, pagetable, own, p)}
         /\ HasSpace(p) => OwnSlots(p) = TableSlots(e, own[p]) /\ UserMappings(p) = own[p]
<1>1. HasSpace(p) <=> HasTables(e, pagetable, p)
  BY DEF HasSpace, HasTables
<1>2. CASE ~HasTables(e, pagetable, p)
  BY <1>1, <1>2 DEF PagesOf, UsesIn
<1>3. CASE HasTables(e, pagetable, p)
  <2>1. /\ e \in {"6.MemPolicy", "8.UserProcess"} /\ Owns(e, pagetable, own)
        /\ Assigned(use, hi, last, AllUses(e, pagetable, own)) /\ SpaceIn(e, mem, pagetable, use, own, p)
    BY <1>3 DEF Layout
  <2>2. PICK d, o, word :
          d \in Page /\ o = own[p] /\ word = pagetable[p] /\ word = Entry(d, {}) /\ Space(e, mem, d, use, p, o)
    BY <2>1 DEF SpaceIn
  <2>3. PageOf(word) = d /\ use[d] = DirectoryUse(p)
    BY <2>2, WordFacts, FlagFacts DEF Space
  <2>4. Separate(e, o)
    BY <2>1, <2>2, OwnSeparate
  <2>5. TableSlots(e, o) \subseteq Slots
    <3>1. 0 \in Slots /\ 1 \in Slots
      BY Sizes
    <3>2. o \subseteq Slots \X Slots
      BY <2>4 DEF Separate
    <3>3. QED  BY <3>1, <3>2 DEF TableSlots
  <2>6. OwnSlots(p) = {i \in Slots : FlagsOf(mem[d][i]) # {} /\ (e = "8.UserProcess" => PAGE_USER \in FlagsOf(mem[d][i]))}
    BY <2>2, <2>3 DEF OwnSlots
  <2>7. OwnSlots(p) = TableSlots(e, o)
    <3>1. \A i \in Slots : i \in OwnSlots(p) <=> i \in TableSlots(e, o)
      <4>1. ASSUME NEW i \in Slots PROVE i \in OwnSlots(p) <=> i \in TableSlots(e, o)
        <5>1. /\ i \in TableSlots(e, o) =>
                   FlagsOf(mem[d][i]) # {} /\ (e = "8.UserProcess" => PAGE_USER \in FlagsOf(mem[d][i]))
              /\ i \notin TableSlots(e, o) =>
                   FlagsOf(mem[d][i]) = {} \/ (e = "8.UserProcess" /\ PAGE_USER \notin FlagsOf(mem[d][i]))
          BY <2>1, <2>2, <2>4, TableIs
        <5>2. QED  BY <2>6, <5>1
      <4>2. QED  BY <4>1
    <3>2. QED  BY <2>5, <2>6, <3>1
  <2>8. UserMappings(p) = o
    <3>1. o \subseteq Slots \X Slots /\ \A va \in o : va[1] \in TableSlots(e, o)
      BY <2>4 DEF Separate, TableSlots
    <3>2. \A va \in o : va \in OwnSlots(p) \X Slots
      BY <2>7, <3>1
    <3>3. \A va \in OwnSlots(p) \X Slots : va \in Slots \X Slots
      BY <2>5, <2>7
    <3>4. \A va \in Slots \X Slots : Translated(mem, word, va, USER) # Nobody <=> va \in o
      <4>1. ASSUME NEW va \in Slots \X Slots PROVE Translated(mem, word, va, USER) # Nobody <=> va \in o
        <5>1. /\ va \in o => \E r \in Page : Translated(mem, word, va, USER) = r
              /\ va \notin o => Translated(mem, word, va, USER) = Nobody
          BY <2>1, <2>2, <2>3, <2>4, MappingIs
        <5>2. \A r \in Page : r # Nobody
          BY Sizes DEF Nobody
        <5>3. QED  BY <5>1, <5>2
      <4>2. QED  BY <4>1
    <3>5. UserMappings(p) = {va \in OwnSlots(p) \X Slots : Translated(mem, word, va, USER) # Nobody}
      BY <2>2 DEF UserMappings
    <3>6. QED  BY <3>2, <3>3, <3>4, <3>5
  <2>9. TablesOf(p) = {PageOf(mem[d][i]) : i \in TableSlots(e, o)}
    BY <2>2, <2>3, <2>7 DEF TablesOf
  <2>10. UserPages(p) = {Translated(mem, word, va, USER) : va \in o}
    BY <2>2, <2>8 DEF UserPages
  <2>11. \A i \in TableSlots(e, o) : \E q \in Page : PageOf(mem[d][i]) = q /\ use[q] = TableUse(p, i)
    BY <2>1, <2>2, <2>4, <2>5, TableIs
  <2>12. \A va \in o : \E r \in Page : Translated(mem, word, va, USER) = r /\ use[r] = PageUse(p, va[1])
    <3>1. \A va \in o : va \in Slots \X Slots
      BY <2>4 DEF Separate
    <3>2. QED  BY <2>1, <2>2, <2>3, <2>4, <3>1, MappingIs
  <2>13. PICK U : U = UsesIn(e, pagetable, own, p)
    OBVIOUS
  <2>14. \A w : w \in U <=> \/ w = DirectoryUse(p) \/ \E i \in TableSlots(e, o) : w = TableUse(p, i)
                            \/ \E va \in o : w = PageUse(p, va[1])
    BY <1>3, <2>2, <2>13 DEF UsesIn, Uses
  <2>15. \A q, r \in Page : use[q] = use[r] /\ use[q] # Nothing => q = r
    BY <2>1 DEF Assigned
  <2>16. PICK T, S : T = TablesOf(p) /\ S = UserPages(p)
    OBVIOUS
  <2>17. PagesOf(p) = {d} \cup T \cup S
    BY <1>1, <1>3, <2>2, <2>3, <2>16 DEF PagesOf
  <2>18. ASSUME NEW q \in {d} \cup T \cup S PROVE q \in Page /\ use[q] \in U
    <3>1. CASE q = d
      BY <2>2, <2>3, <2>14, <3>1
    <3>2. CASE q \in T
      BY <2>9, <2>11, <2>14, <2>16, <3>2
    <3>3. CASE q \in S
      BY <2>10, <2>12, <2>14, <2>16, <3>3
    <3>4. QED  BY <3>1, <3>2, <3>3
  <2>19. ASSUME NEW q \in Page, use[q] \in U PROVE q \in {d} \cup T \cup S
    <3>1. CASE use[q] = DirectoryUse(p)
      BY <2>2, <2>3, <2>15, <3>1, UseFacts
    <3>2. ASSUME NEW i \in TableSlots(e, o), use[q] = TableUse(p, i) PROVE q \in T
      <4>1. PICK r \in Page : PageOf(mem[d][i]) = r /\ use[r] = TableUse(p, i)
        BY <2>11
      <4>2. r = q
        BY <2>15, <3>2, <4>1, UseFacts
      <4>3. QED  BY <2>9, <2>16, <4>1, <4>2
    <3>3. ASSUME NEW va \in o, use[q] = PageUse(p, va[1]) PROVE q \in S
      <4>1. PICK r \in Page : Translated(mem, word, va, USER) = r /\ use[r] = PageUse(p, va[1])
        BY <2>12
      <4>2. r = q
        BY <2>15, <3>3, <4>1, UseFacts
      <4>3. QED  BY <2>10, <2>16, <4>1, <4>2
    <3>4. QED  BY <2>14, <2>19, <3>1, <3>2, <3>3
  <2>20. PagesOf(p) = {q \in Page : use[q] \in U}
    BY <2>17, <2>18, <2>19
  <2>21. QED  BY <1>1, <2>2, <2>7, <2>8, <2>13, <2>20
<1>4. QED  BY <1>2, <1>3

LEMMA UsesTaken ==
  ASSUME NEW e, NEW pt, NEW own, NEW p
  PROVE  \A w \in UsesIn(e, pt, own, p) : w # Nothing
  BY UseFacts DEF UsesIn, Uses

LEMMA PagesCount ==
  ASSUME OwnEntries, NEW e, e = ex, NEW lo, NEW hi, NEW last, NEW use, NEW own,
         Layout(e, mem, freelist, pagetable, lo, hi, last, use, own), NEW p \in Proc, HasSpace(p)
  PROVE  Cardinality(PagesOf(p)) = 1 + Cardinality(OwnSlots(p)) + Cardinality(UserMappings(p))
<1>1. PICK S, U, o : S = PagesOf(p) /\ U = UsesIn(e, pagetable, own, p) /\ o = own[p]
  OBVIOUS
<1>2. /\ HasTables(e, pagetable, p) /\ S = {q \in Page : use[q] \in U}
      /\ OwnSlots(p) = TableSlots(e, o) /\ UserMappings(p) = o
  BY <1>1, PagesOfIs
<1>3. /\ e \in {"6.MemPolicy", "8.UserProcess"} /\ Owns(e, pagetable, own)
      /\ Assigned(use, hi, last, AllUses(e, pagetable, own))
  BY DEF Layout
<1>4. Separate(e, o)
  BY <1>1, <1>3, OwnSeparate
<1>5. IsFiniteSet(S)
  <2>1. PICK a \in Int, b \in Int : a = 0 /\ b = 2 * ENTRIES - 1 /\ Page = a .. b
    BY Sizes
  <2>2. IsFiniteSet(Page)
    BY <2>1, FS_Interval
  <2>3. S \in SUBSET Page
    BY <1>2
  <2>4. QED  BY <2>2, <2>3, FS_Subset
<1>6. \A w \in U : w # Nothing /\ \E q \in Page : use[q] = w
  <2>1. U \subseteq AllUses(e, pagetable, own)
    BY <1>1 DEF AllUses, Proc
  <2>2. QED  BY <1>3, <2>1 DEF Assigned
<1>7. PICK f : f = [q \in S |-> use[q]]
  OBVIOUS
<1>8. f \in [S -> U] /\ (\A a, b \in S : f[a] = f[b] => a = b) /\ \A w \in U : \E a \in S : f[a] = w
  <2>1. \A a, b \in S : f[a] = f[b] => a = b
    BY <1>2, <1>3, <1>6, <1>7 DEF Assigned
  <2>2. f \in [S -> U]
    BY <1>2, <1>7
  <2>3. \A w \in U : \E a \in S : f[a] = w
    BY <1>2, <1>6, <1>7
  <2>4. QED  BY <2>1, <2>2, <2>3
<1>9. Cardinality(U) = Cardinality(S)
  BY <1>5, <1>8, SameSize
<1>10. U = Uses(e, p, o)
  BY <1>1, <1>2 DEF UsesIn
<1>11. Cardinality(U) = 1 + Cardinality(TableSlots(e, o)) + Cardinality(o)
  BY <1>4, <1>10, UsesCount
<1>12. QED  BY <1>1, <1>2, <1>9, <1>11

LEMMA PagesAreApart == ASSUME OwnEntries PROVE Inv => PagesApart
<1> SUFFICES ASSUME Inv, ex # "5.PageFault"
             PROVE  /\ \A j, k \in OnList : PageOf(Link[j]) = PageOf(Link[k]) => j = k
                    /\ PagesOf(0) \cap PagesOf(1) = {}
                    /\ Free \cap (PagesOf(0) \cup PagesOf(1)) = {}
                    /\ \A p \in Proc : HasSpace(p) =>
                         Cardinality(PagesOf(p)) = 1 + Cardinality(OwnSlots(p)) + Cardinality(UserMappings(p))
                    /\ LET all == Free \cup PagesOf(0) \cup PagesOf(1)
                       IN  all \subseteq PoolPages /\ Cardinality(PoolPages \ all) <= 1
  BY DEF PagesApart
<1>1. PICK e : e = ex
  OBVIOUS
<1>2. PICK lo, hi, last, use, own : Layout(e, mem, freelist, pagetable, lo, hi, last, use, own)
  BY <1>1 DEF Inv, Pages
<1>3. /\ e \in {"6.MemPolicy", "8.UserProcess"} /\ FreeTo(mem, freelist, lo, hi) /\ PoolIs(e, lo, last)
      /\ Assigned(use, hi, last, AllUses(e, pagetable, own)) /\ last \in Page /\ hi <= last
  BY <1>2 DEF Layout
<1>4. Free = {q \in Page : lo <= q /\ q <= hi} /\ \A j, k \in OnList : PageOf(Link[j]) = PageOf(Link[k]) => j = k
  BY <1>3, FreeIs
<1>5. lo \in Nat /\ hi \in Nat /\ last \in Nat /\ last < 2 * ENTRIES /\ ENTRIES \in Nat /\ lo - 1 <= hi
  BY <1>3, FreeToSizes, Sizes DEF FreeTo
<1>6. PICK F, A, B, U, V : /\ F = Free /\ A = PagesOf(0) /\ B = PagesOf(1)
                           /\ U = UsesIn(e, pagetable, own, 0) /\ V = UsesIn(e, pagetable, own, 1)
  OBVIOUS
<1>7. A = {q \in Page : use[q] \in U} /\ B = {q \in Page : use[q] \in V}
  <2>1. 0 \in Proc /\ 1 \in Proc
    BY DEF Proc
  <2>2. QED  BY <1>1, <1>2, <1>6, <2>1, PagesOfIs
<1>8. \A q \in A \cup B : q \in Page /\ use[q] # Nothing
  BY <1>6, <1>7, UsesTaken
<1>9. \A w \in U : w \notin V
  BY <1>6, UsesApart DEF UsesIn
<1>10. A \cap B = {}
  BY <1>7, <1>9
<1>11. \A q \in A \cup B : hi < q /\ q <= last
  BY <1>3, <1>8 DEF Assigned
<1>12. F \cap (A \cup B) = {}
  BY <1>4, <1>5, <1>6, <1>8, <1>11, Sizes
<1>13. \A p \in Proc : HasSpace(p) =>
         Cardinality(PagesOf(p)) = 1 + Cardinality(OwnSlots(p)) + Cardinality(UserMappings(p))
  BY <1>1, <1>2, PagesCount
<1>14. PICK all : all = F \cup A \cup B
  OBVIOUS
<1>15. \A q \in Page : q \in all <=> lo <= q /\ q <= last
  <2>1. ASSUME NEW q \in Page, hi < q, q <= last PROVE q \in A \cup B
    <3>1. use[q] \in AllUses(e, pagetable, own)
      BY <1>3, <2>1 DEF Assigned
    <3>2. QED  BY <1>6, <1>7, <3>1 DEF AllUses
  <2>2. \A q \in Page : q \in Nat
    BY Sizes
  <2>3. \A q \in A \cup B : lo <= q /\ q <= last
    BY <1>5, <1>8, <1>11, <2>2
  <2>4. \A q \in F : lo <= q /\ q <= last
    BY <1>3, <1>4, <1>5, <1>6, <2>2
  <2>5. \A q \in Page : lo <= q /\ q <= last => q \in F \/ (hi < q /\ q <= last)
    BY <1>4, <1>5, <1>6, <2>2
  <2>6. QED  BY <1>14, <2>1, <2>3, <2>4, <2>5
<1>16. all \subseteq Page
  BY <1>4, <1>6, <1>7, <1>14
<1>17. PoolPages \subseteq Page /\ (\A q \in Page : lo <= q /\ q <= last => q \in PoolPages)
         /\ \A q \in PoolPages : q # 10 => lo <= q /\ q <= last
  <2>1. CASE e = "6.MemPolicy"
    <3>1. lo = ENTRIES /\ last = 2 * ENTRIES - 1
      BY <1>3, <2>1 DEF PoolIs
    <3>2. PoolPages = ENTRIES .. 2 * ENTRIES - 1
      BY <1>1, <2>1 DEF PoolPages
    <3>3. QED  BY <1>5, <3>1, <3>2, Sizes
  <2>2. CASE e = "8.UserProcess"
    <3>1. lo \in {10, 11} /\ last = 10 + POOL - 1
      BY <1>3, <2>2 DEF PoolIs
    <3>2. PoolPages = 10 .. 10 + POOL - 1 /\ POOL \in Nat
      BY <1>1, <2>2, Sizes DEF PoolPages
    <3>3. QED  BY <1>5, <3>1, <3>2, Sizes
  <2>3. QED  BY <1>3, <2>1, <2>2
<1>18. all \subseteq PoolPages /\ PoolPages \ all \subseteq {10}
  BY <1>15, <1>16, <1>17
<1>19. Cardinality(PoolPages \ all) <= 1
  <2>1. PICK L : L = PoolPages \ all
    OBVIOUS
  <2>2. L \in SUBSET {10}
    BY <1>18, <2>1
  <2>3. IsFiniteSet({10}) /\ Cardinality({10}) = 1
    BY FS_Singleton
  <2>4. Cardinality(L) <= Cardinality({10})
    BY <2>2, <2>3, FS_Subset
  <2>5. QED  BY <2>1, <2>3, <2>4
<1>20. QED  BY <1>4, <1>6, <1>10, <1>12, <1>13, <1>14, <1>18, <1>19

\* No page of the pool has two uses, or none.
THEOREM PagesStayApart == ASSUME OwnEntries, EnoughPages PROVE Spec => []PagesApart
<1>1. Inv => PagesApart
  BY PagesAreApart
<1>2. QED  BY <1>1, Invariance, PTL

-----------------------------------------------------------------------------
(***************************************************************************)
(* The refinement of PrivateMemory.                                        *)
(***************************************************************************)
\* What the refinement mapping says, from the invariant.
Kepts == [p \in Proc |-> [a \in Seen |-> Kept(p, a)]]

Founds == [p \in Proc |-> [a \in Seen |-> Found(ex, mem, pagetable[p], p, a)]]

LEMMA KeptIsFound == ASSUME Inv PROVE Kepts = Founds
<1>1. ASSUME NEW p \in Proc, NEW a \in Seen PROVE Kept(p, a) = Found(ex, mem, pagetable[p], p, a)
  <2>1. (IF p = active THEN cr3 ELSE pagetable[p]) = pagetable[p]
    <3>1. p # Nobody
      BY DEF Proc, Nobody
    <3>2. QED  BY <3>1 DEF Inv, Loaded
  <2>2. Needed(p) = NeededBy(ex, p)
    BY DEF Needed, Ring3, NeededBy
  <2>3. QED  BY <2>1, <2>2 DEF Kept, Found
<1>2. QED  BY <1>1 DEF Kepts, Founds

LEMMA FirstFounds == ASSUME OwnEntries, Init PROVE Founds = [p \in Proc |-> [a \in Seen |-> First(a)]]
<1>1. Inv
  BY InvInit
<1>2. ASSUME NEW p \in Proc, NEW a \in Seen PROVE Found(ex, mem, pagetable[p], p, a) = First(a)
  <2>1. CASE pagetable[p] = NULL
    BY <2>1 DEF Found
  <2>2. CASE pagetable[p] # NULL
    <3>1. ex = "5.PageFault" /\ p = 0 /\ mem = FirstMemory
      BY <2>2 DEF Init
    <3>2. FaultShape(mem) /\ pagetable[p] = Entry(SPEDE_DIRECTORY, {})
      BY <1>1, <3>1 DEF Inv, Pages, Loaded
    <3>3. ~Mapped(mem)
      <4>1. mem[SPEDE_DIRECTORY][X[1]] = NULL
        BY <3>1, FaultPages, FirstMemoryIs
      <4>2. QED  BY <4>1, FaultPages, WordFacts, FlagFacts DEF Mapped
    <3>4. PICK e, w : e = ex /\ w = pagetable[p]
      OBVIOUS
    <3>5. Found(e, mem, w, p, a) = IF Mapped(mem) /\ a = X THEN mem[page][0] ELSE First(a)
      BY <3>1, <3>2, <3>4, FaultFound
    <3>6. QED  BY <3>3, <3>4, <3>5
  <2>3. QED  BY <2>1, <2>2
<1>3. QED  BY <1>2 DEF Founds

\* Only stores change what processes find.
LEMMA FoundsNext ==
  ASSUME OwnEntries, EnoughPages, Inv, [Next]_vars
  PROVE  \/ Founds' = Founds
         \/ \E p \in Proc, a \in Seen, v \in Value : Founds' = [Founds EXCEPT ![p][a] = Data(v)]
<1>1. ASSUME ex' = ex, SameFound(ex', mem, pagetable, mem', pagetable') PROVE Founds' = Founds
  BY <1>1 DEF Founds, SameFound
<1>2. CASE init_proc
  <2>1. ex' = ex
    BY <1>2 DEF init_proc
  <2>2. QED  BY <1>1, <1>2, <2>1, InitProcStep
<1>3. CASE NewKernelProcHandler
  <2>1. ex' = ex
    BY <1>3 DEF NewKernelProcHandler
  <2>2. QED  BY <1>1, <1>3, <2>1, NewKernelProcStep
<1>4. CASE NewUserProcHandler
  <2>1. ex' = ex
    BY <1>4 DEF NewUserProcHandler
  <2>2. QED  BY <1>1, <1>4, <2>1, NewUserProcStep
<1>5. CASE Start \/ context_switch
  <2>1. ex' = ex
    BY <1>5 DEF Start, context_switch
  <2>2. QED  BY <1>1, <1>5, <2>1, SwitchStep
<1>6. ASSUME NEW va \in Addresses, Fault(va) PROVE Founds' = Founds
  <2>1. ex' = ex /\ (ex = "5.PageFault" \/ ex = "6.MemPolicy")
    BY <1>6 DEF Fault, Inv, Loaded
  <2>2. QED  BY <1>1, <1>6, <2>1, PageFaultStep, MemPolicyFaultStep
<1>7. ASSUME NEW va \in Addresses, NEW v \in Value, Store(va, v)
      PROVE  active \in Proc /\ va \in Seen /\ Founds' = [Founds EXCEPT ![active][va] = Data(v)]
  <2>1. ex' = ex
    BY <1>7 DEF Store
  <2>2. PICK p, word : p = active /\ word = Data(v)
    OBVIOUS
  <2>3. p \in Proc /\ va \in Seen /\ StoredFound(ex', mem, pagetable, mem', p, va, word) /\ pagetable' = pagetable
    BY <1>7, <2>2, StoreStep
  <2>4. ASSUME NEW q \in Proc, NEW b \in Seen
        PROVE  Found(ex', mem', pagetable'[q], q, b)
                 = IF q = p /\ b = va THEN word ELSE Found(ex, mem, pagetable[q], q, b)
    BY <2>1, <2>3 DEF StoredFound
  <2>5. Founds' = [q \in Proc |-> [b \in Seen |-> IF q = p /\ b = va THEN word ELSE Founds[q][b]]]
    BY <2>4 DEF Founds
  <2>6. PICK F : F = Founds
    OBVIOUS
  <2>7. F = [q \in Proc |-> [b \in Seen |-> F[q][b]]]
    BY <2>6 DEF Founds
  <2>8. [F EXCEPT ![p][va] = word] = [q \in Proc |-> [b \in Seen |-> IF q = p /\ b = va THEN word ELSE F[q][b]]]
    BY <2>3, <2>7
  <2>9. QED  BY <2>2, <2>3, <2>5, <2>6, <2>8
<1>8. CASE UNCHANGED vars
  BY <1>8 DEF vars, Founds
<1>9. QED  BY <1>2, <1>3, <1>4, <1>5, <1>6, <1>7, <1>8 DEF Next

\* Every step of the examples is one of private memories, or changes none.
THEOREM MemoriesArePrivate == ASSUME OwnEntries, EnoughPages PROVE Spec => ImplementsPrivateMemory
<1> DEFINE Mapping == [p \in Proc |-> [a \in Addresses \cup {CODE_START} |-> Kept(p, a)]]
           Agrees == Mapping = Founds
<1>1. Inv => Agrees
  BY KeptIsFound DEF Kepts, Seen
<1>2. Init /\ Agrees => P!Init
  <2> SUFFICES ASSUME Init, Agrees PROVE P!Init
    OBVIOUS
  <2>1. Mapping = [p \in Proc |-> [a \in Addresses \cup {CODE_START} |-> First(a)]]
    BY FirstFounds DEF Seen
  <2>2. QED  BY <2>1 DEF P!Init
<1>3. Inv /\ [Next]_vars /\ Agrees /\ Agrees' => [P!Next]_Mapping
  <2> SUFFICES ASSUME Inv, [Next]_vars, Agrees, Agrees' PROVE [P!Next]_Mapping
    OBVIOUS
  <2>1. CASE Founds' = Founds
    BY <2>1
  <2>2. ASSUME NEW p \in Proc, NEW a \in Seen, NEW v \in Value, Founds' = [Founds EXCEPT ![p][a] = Data(v)] PROVE P!Next
    <3>1. Mapping' = [Mapping EXCEPT ![p][a] = Data(v)]
      BY <2>2
    <3>2. a \in Addresses \cup {CODE_START} /\ Data(v) \in {Data(w) : w \in Value}
      BY DEF Seen
    <3>3. P!Write(p, a, Data(v))
      BY <3>1 DEF P!Write
    <3>4. QED  BY <3>2, <3>3 DEF P!Next
  <2> HIDE DEF Agrees, Mapping
  <2>3. QED  BY <2>1, <2>2, FoundsNext
<1> HIDE DEF Agrees
<1>4. QED  BY <1>1, <1>2, <1>3, Invariance, PTL DEF Spec, ImplementsPrivateMemory, P!Spec
=============================================================================
