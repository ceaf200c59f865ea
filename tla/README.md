# A formal model of the CPE 159 class examples

The repository is a course in operating systems in seventeen small programs for the SPEDE simulator
(an x86 PC), each built on the ideas of the one before. Most are a page of code; the last two are
systems: `9.serialport`, a preemptive kernel with processes, semaphores and an interrupt-driven
serial driver, and `A.ide`, a file system on a buffer cache and an IDE disk. This project models
them in TLA+, checks the models with TLC and proves what matters most with TLAPS.

Contents: [components](#components) · [plan](#plan) · [modules](#modules) · [runs](#runs) ·
[findings](#findings) · [proofs](#proofs) · [limits](#limits)

## Components

| Component | State | Operations | What makes it hard | What makes it correct |
|---|---|---|---|---|
| `9.serialport` queue (`queue.c`) | `q_t`: head, tail, size, items | `queue_init`, `queue_in`, `queue_out`, `queue_is_empty`, `queue_is_full` | wrap-around; three fields that must agree | it is a bounded FIFO queue |
| `9.serialport` kernel (`main.c`, `handlers.c`, `events.S`) | `current_pid`, `ready_q`, `free_q`, `pcb[]`, `sem[]` | NewProc, Timer, SemAlloc, SemWait, SemPost handlers; `Scheduler` after each | preemption at any instruction, wakeups from interrupts | nobody is lost, starved or overtaken; no wakeup is lost; somebody can always run |
| `9.serialport` serial driver (`handlers.c`, `syscall.c`) | `port[]` (three queues, two semaphore IDs, `write_ok`, owner), the UART | Port interrupt; PortAlloc, PortWrite, PortRead calls | the producer is an interrupt, the consumer a process that blocks; edge-triggered interrupts | semaphores count the queues; output flows; input in order, and all of it |
| `9.serialport` processes (`proc.c`) | where each is in its loop | `Init` (never blocks), `TermProc` (prompt, read, ...) | they interleave with everything | what they wait for comes |
| `A.ide` buffer cache (`bio.c`) | LRU list of `NBUF` buffers with BUSY, VALID, DIRTY | `bread`, `bwrite`, `brelse`, `bget` | a busy block asked for again, recycling, no buffer left | one buffer per block, holding the block |
| `A.ide` IDE driver (`ide.c`) | `idequeue`, disk registers | `iderw`, `idestart`, disk interrupt | request against interrupt, disk errors | every request ends, with its block |
| `A.ide` file system (`fs.c`, `file.c`) | bitmap, inodes, inode cache, directories, file table | `balloc` ... `namei`, `fileread`, `filewrite` | exhaustion, references, caches that go stale | no block in two files, references counted, what is written is read |
| `A.ide` mkfs (`tools/mkfs.c`) | the image | `main`, `ialloc`, `balloc`, `iappend` | the root's size, direct and indirect blocks | the image is a file system: it is where `FileSystem` starts |
| `A.ide` interrupts, PIC, boot (`interrupts.c`, `picirq.c`, `main.c`) | IDT, handler table, mask and in-service registers | boot; register, enable, disable, dismiss | an interrupt between any two steps; a chained second controller | a delivered interrupt has a handler; a mask bit says what was asked for; nothing stays undismissed |
| `8.UserProcess`, `6.MemPolicy`, `5.PageFault`: pages | free list, page tables, CR3 | `kinit`, `kalloc`, `kfree`, `setup_pagetable`, page fault, switch | the list is kept in the pages; tables hold flag bits | pages have one owner; each process has a memory of its own; the kernel stays mapped |
| All interrupt paths: `4.*`, `6`, `7`, `8`, `9`, and `1.*`, `2.*`, `3.*`, `5`, `A.ide`, `TimerEvent` (`events.S`, `trap.S`, `context.S`) | stacks, trapframes, `p[]`, TSS | entry, `context_switch`, INT 0x80, exit | layouts in assembler, C and first frames must agree; ring changes | a process resumes with its own registers and stack |
| `2.Keyboard_Polling`, `3.com2_polling`, `0.*`, `ProjectDemo` | none, or compiled images | | | not modelled |

How they interact in `9.serialport`: hardware interrupts (timer, UART) and software interrupts (the
system calls) all enter `Kernel()` through interrupt gates, so a handler is never interrupted. The
driver's interrupt posts semaphores that processes wait on, which moves processes into the ready
queue. Processes share `port[]` with the kernel: `PortAlloc()` writes to it from user code with
interrupts on.

In `A.ide` `main()` is the only thread. It calls the file system, which reads blocks through the buffer
cache, which waits for the disk's interrupt. The interrupt path, from the device through the controllers and the
IDT to `ide_irq_handler`, is set up by the boot.

## Plan

The order was that of importance and of dependence.

1. `QueueOps`, `CircularQueue` (refines `BoundedFifo`); `Kernel` (refines `CountingSemaphore`); `Uart`, `SerialPort`
   (extends `Kernel`); `BufferCache` (refines `BlockStore`). Proofs: `CircularQueueProofs`, `KernelProofs`.
2. `Mkfs`, `FileSystem` (extends `Mkfs`, refines `FileStore`); `Interrupts` with `InterruptsProofs`; `PageTables` (refines
   `PrivateMemory`); `TrapFrames` (refines `PrivateProcessors`).
3. Proofs: the rest of `Kernel` and `CircularQueue`; the safety of `SerialPort` from the kernel's invariant (`SerialPortProofs`);
   the buffer cache and its refinement (`BufferCacheProofs`); induction on sets (`IntervalInduction`);
   the inode cache, the file table and the links of inodes (`FileSystemProofs`); pages and page tables (`PageTablesProofs`).
4. To do, proofs: of `FileSystem`, that blocks have one place (`BlocksAccounted`), on which the contents of files depend.

## Modules

**`QueueOps`, `CircularQueue`, `BoundedFifo`.** `QueueOps` has each function of `queue.c` as an operator
on a `q_t` record; return code and item are read off the queue before the call. `CircularQueue` calls
them in any order and keeps what the last call returned. `BoundedFifo` is the promise: a sequence of
at most `Capacity` items. The refinement maps the ring to the sequence `Contents(q)`.

**`Kernel`.** One interrupt or system call is one step, because every gate in the IDT is an interrupt
gate (`main.c:59-61`) and `KernelExit` ends with `IRET`. Handlers are operators on a record of the
kernel's memory (`Memory`), so that the serial driver can call several in one step; `Return(Scheduler(k))`
ends each action as `Kernel()` ends. `Create` and `Start` are `main()`. The kernel's own queues are
sequences here, which `CircularQueue` justifies: `ASSUME QUEUE_SIZE >= PROC_NUM - 1`, as in the source
(20 and 20), means that no queue of pids overflows - a fact that is proved, since `Enqueue` drops an item
when it is full. `CountingSemaphore` is Dijkstra's semaphore with one integer, negative while clients
are blocked; `passes - Len(wait_q)` is that integer.

**`Uart`.** The hardware: one byte of room in each direction, RXRDY and TXRDY, IIR reading and its side
effect, and the 8259's edge-triggered input. External: modelled from what the driver does with it.

**`SerialPort`.** Extends `Kernel`, sharing its variables, and replaces the arbitrary callers of
`Kernel`'s semaphores by the driver and by `TermProc`. Handlers are operators on `Machine` (kernel memory,
ports, UARTs). `TermProc` has a program counter at each system call and at each store of `PortAlloc()`
to `port[]`, so interrupts fall between any two. `PortEvent` is the interrupt and runs
`PortHandler` for every port. `Type` and `Transmit` are the outside world. Bytes are numbered as they
are typed; `kind` says which of them are line ends.

**`BufferCache`, `BlockStore`.** `bio.c` on `ide.c`. The two link arrays, the buffers' flags, `idequeue`, the
drive and the disk are variables; `thread` says where `main()`, the only thread, is. `bget` and
`brelse` are single steps, because the disk's interrupt does nothing while no request is queued, and one is queued only
inside `iderw`; `iderw` itself is three steps (`Queue`, `Start`, `Return`), with `DriveDone` and `ide_irq_handler` between
any two. The thread asks for any block, holds as many as it likes and changes them, as the functions of `fs.c` do. Three
parameters say what goes wrong around the cache: `FORGETS` (a changed buffer is released without `bwrite`: `fs.c` always
does this, `bwrite` has no caller), `TAKES_TWICE` (a block is asked for that is in use: `main.c` does this) and `DISK_ERRORS`.
`BlockStore` is what `bio.c:1-14` promises to a thread that keeps its rules: a block has one content, and whoever
takes it has it alone. Its `content` is what the valid buffer of a block holds, or else the disk.

**`Mkfs`, `FileSystem`, `FileStore`.** `mkfs.c` computes the first disk: the superblock's numbers, inodes, the root directory, the
files it is given, the bitmap. `fs.c` and `file.c` work on it: each C function is an operator from the state before to the state
after and the value returned, and a call is one step, since there is one thread. `fs` is the disk (bitmap `used`, `dinode`, `data`), the
inode cache `icache` and the file table `ftable`. A directory is a file of cells, each with a number and a name; a name is cut
as `strncpy` cuts it. Sizes are in cells and wrap as a `uint` does, so that -1 is a large count. The client is whoever calls: it gets
references, locks, reads, writes, links, unlinks, unlocks and gives back, in any order that keeps the rules of `fs.c:140-156`, and `ptr`
counts the pointers it holds. `FileStore` is what is promised below names: a set of files; a call changes one of them, by a run of cells.
The model is of a run in which the cache loses nothing; that it does lose what is not written is the finding of `cache_forgets`.

**`Interrupts`.** `pic` has the two 8259A controllers: masks, requests, in service, vector offsets; `table` the IDT and
`irq_handlers`; `cpu` the interrupt flag and the vector in hand; `main` the step of the boot, and of a registration. A registration
is three steps - gate, handler, enable - and devices interrupt between any two. Controllers and processor are external.
`AutoEoi` says on which controllers automatic EOI works, which `picirq.c:62` doubts for the second. `Careless` says what the
program may do that makes properties false: see the findings. A call of `interrupts_irq_register` for a line whose entry does not dismiss is
made only where the controller ends interrupts itself, unless `"dismiss"` is in it.

**`PageTables`, `PrivateMemory`.** Memory is pages of words, and everything is in it: the links of the free list in the first word of each
free page, directories and tables with flag bits in their entries, what `memset` left. `Translated` is what the processor makes of an address. The
three examples are values of `ex`: `5.PageFault` with its one table and one page, `6.MemPolicy` with demand allocation,
`8.UserProcess` with a user address space. `PrivateMemory` is what an address space promises.

**`TrapFrames`, `PrivateProcessors`.** The entry and exit paths of twelve examples as sequences of instructions on one array of words, the
`trapframe_t` of each as a sequence of fields, the first frames as the fields the C code sets, and the C handlers that switch.
Nothing says that the layouts agree: it is checked. What lies below a stack pointer is overwritten after every step.
`PrivateProcessors` promises every process a processor and a stack of its own; the refinement reads a process's registers from
the processor if it is active and from its frame if not. `TrapFrames` runs the instructions with a `RECURSIVE` operator, so no theorem is stated about it.

Names are those of the source. Definitions called `X_Y` are `X` with a programming mistake `Y`; no
specification uses them. They show that each property notices a mistake of the kind it is for.

## Runs

| Run | Module | What it shows |
|---|---|---|
| `queue` | `CircularQueue` | the ring is a bounded FIFO queue (`ImplementsFifo`); tail = head + size and free slots hold 0 (`RingInv`). Four slots, two items, one of them 0 like a free slot: every head position with every fill |
| `kernel` | `Kernel` | no process lost or scheduled twice (`EveryPidInItsPlace`), no lost wakeup (`NoWaiterWhilePasses`), somebody always runs (`NoPanic`), FIFO order (`NoOvertaking`), counting semaphores (`ImplementsSemaphores`), every ready process runs (`NoStarvation`). Init and three others, two semaphores, slices of two ticks |
| `serial` | `SerialPort` | a pass of `write_sid` is a free place of `write_q` (`WriteCredit`), a pass of `read_sid` a byte of `read_q` (`ReadCredit`), output does not get stuck (`NoStuckOutput`), input is in order (`ReadInOrder`). Queues of two, prompts of three bytes and lines of two, four typed bytes of all kinds |
| `serial_liveness` | `SerialPort` | a byte in `read_q` is read (`BytesAreRead`). Two typed bytes |
| `cache` | `BufferCache` | the LRU list keeps all buffers (`ListIntact`); one buffer per block (`OneBufferPerBlock`); `bread` returns the block, or the list's head if every buffer is in use (`BreadReturnsBlock`); contents survive recycling (`ImplementsBlockStore`); requests end (`CallsReturn`). Three buffers, four blocks, two of them changed |
| `fs` | `MCFileSystem` | an inode has one slot (`OneSlotPerInode`), which agrees with the disk when it is not locked (`ValidAgrees`); a block has one place in one file, or is free (`BlocksAccounted`); names are unique (`NamesUnique`) and found (`NameiFinds`); references are counted, and only lookups lose any (`ReferencesCounted`); an inode is freed when nobody has it (`FreedWhenUnused`); what is written is read (`ImplementsFileStore`) |
| `interrupts` | `MCInterrupts` | interrupts find an entry and a handler (`EveryInterruptHasHandler`), masks are as asked (`MasksAsAsked`), no interrupt blocks another for ever (`RequestsAreServed`). A line of each controller and a trap |
| `trapframes` | `TrapFrames` | processes do not notice interrupts and switches (`ImplementsPrivateProcessors`), and stay in their stacks (`StacksStayApart`). Twelve examples, two processes, two words of their own on each stack |
| `pages` | `MCPageTables` | pages have one owner (`PagesApart`), the kernel is mapped in every directory (`KernelStaysMapped`), processes have memories of their own (`ImplementsPrivateMemory`). Pages of 20 words, a pool of 7 |
| `serial_late`, `cache_forgets`, `trapframes_fault` | | see [findings](#findings); expected to be violated |

Bounds. In `serial`, queues of two with prompts of three bytes make the writer block on a full queue; with two typed
bytes in a line and four in all, `read_q` overflows, fills a line and wraps. `INIT_PASSES` and
`MAX_PASSES` bound what is passed to `SemAlloc` and how far posts may run ahead of waits; one pass more
than anyone waits for already distinguishes banking from handing over. `MAX_TYPED` ends the
input, not the system: after the last byte everything else goes on, and no run disables deadlock checking.
No byte arrives before `PortAlloc()` has returned (`TYPES_EARLY = FALSE`) or while the
interrupt handler runs (`LATE_ARRIVALS = FALSE`); two findings say what happens otherwise. A late byte comes in at the port that
interrupts, one per interrupt.
In `cache` there is one block more than buffers, so every block's buffer can be recycled while any other is held, and three
buffers are the fewest with a first, a middle and a last one. `CHANGED` bounds which blocks the thread changes.

In `fs` a block has two cells, a file one direct block and an indirect one, the disk 18 blocks and four inodes, so that
a file ends in either kind of block and inodes run out. The cache has three slots, of which the client holds two references at most
(`MAXPTRS`); slots are recycled all the time, and `MAXREF` bounds the references that lookups lose. The
client is one of five kinds, each with some of the calls and at most three that change the disk
(`changes`): the kinds cover every call, and each pair of calls that share a structure is in one of them. Two of the names are the same when cut.

In `interrupts`, lines 6 and 14 are one on each controller; line 14 reaches the first controller as its line 2 and goes before 6. In `pages`, `ENTRIES` = 20 makes the
indices of the code's addresses distinct; the pool of 7 has one page more than `8.UserProcess` asks for, so that the list is used
nearly up, and `Places` lets `page_address` be aligned or not. In `trapframes` a process computes values that name it, so that one value each is enough to tell
whose register it is.

Fairness. `Kernel`: the timer keeps interrupting and `main()` reaches its end; nothing is assumed of the
processes, which may make any calls or none. `SerialPort`: also, the UART finishes a byte, a latched
interrupt is delivered, and a process that is given the CPU again and again makes progress (strong
fairness: a slice is ten ticks of 10 ms, far longer than the code between two system calls). Nobody is
assumed to type. `BufferCache`: the processor goes on inside `iderw`, the drive finishes what it was told and its interrupt
is delivered; the thread need not ask for anything. `Interrupts`: handlers, registrations and the boot go on; the program does not
keep interrupts off for ever (strong fairness of `interrupts_enable`, since the program may turn them off again: `main()` leaves them
on), and the controllers deliver what is deliverable again and again (strong, as a handler or `cli` disables it in between). No device is
assumed to interrupt.

## Findings

Three have a run that is expected to be violated; the others were seen with the constants or the definition named, in otherwise the same configuration.
Findings 16 to 19 are about comments only: what the code does is what the modules say, and no other property is false for it.

1. **A byte during `PortHandler()`** (`serial_late`). The handler asks the UART once per interrupt and the
   controller is edge triggered; a byte that arrives between its two looks at the UART gets no edge and
   stops the port for ever.
2. **`fs.c` never writes** (`cache_forgets`). Every function that changes a buffer releases it without `bwrite`, so the
   buffer counts as clean and the change is lost when it is recycled, although `fs.c:198` speaks of copying to disk. In
   consequence `ImplementsBlockStore` is shown for a use of the cache the repository's own file system does not make.
3. **Two pops too many** (`trapframes_fault`). The page fault entry of `6.MemPolicy` takes two words off the stack that it did not
   put there, and returns into garbage. `pages` treats the handler's C code as if the entry were `5.PageFault`'s.
4. **`write_ok` never becomes 0** (`SerialPort!WriteOkMeansIdle`). `types.h:137` calls it a flag that is 0 while a
   transmission is in progress. It is set in two places and cleared in none.
5. **A byte during `PortAlloc()`** (`SerialPort!PortReadFindsCharacter`, `TYPES_EARLY = TRUE`). The UART's interrupts are on before the
   semaphores are there, and `read_q.size = 0` drops a byte but not the pass it was counted with.
6. **Two buffers for a block** (`BufferCache!OneBufferPerBlock`, `TAKES_TWICE = TRUE`). `bget` passes over a cached block that is busy and
   recycles a buffer for it. `main.c:94-103` runs into it with the superblock.
7. **A failed read is valid** (`BufferCache!ValidWasRead`, `DISK_ERRORS = TRUE`).
8. **A lost directory entry** (`FileSystem!BlocksAccounted`, `FileSystem!ImplementsFileStore`, `Images <- MCFullRoot`,
   `Clients <- MCLinker`). `mkfs` rounds the root's size up past its last block; an entry written there is lost, and its block too.
9. **Block 0 in use** (`FileSystem!BlockZeroUnused`, `FSSIZE = 13`). On a full disk `balloc` returns 0, and `bmap` takes it for a block.
10. **A name twice** (`FileSystem!NamesUnique`, `NINODE = 2`, `FULL_CACHE = TRUE`). With the inode cache full, a name that is there is not found.
11. **`namex` looks at inodes it has not locked** (`fs.c:609`), against `fs.c:135-136`. `NameiFinds` has the condition that makes it harmless.
12. **Disabling enables** (`Interrupts!MasksAsAsked`, `Careless = {"disable"}`). `pic_irq_disable` flips the bit.
13. **The disk's interrupt is not dismissed** (`Interrupts!RequestsAreServed`, `Careless = {"dismiss"}`). It depends on the automatic EOI of
    the controller for which `picirq.c:62` says it does not tend to work.
14. **A table's flags in its address** (`PageTables!ImplementsPrivateMemory`, a second address behind the same directory entry in `Others`).
    The second fault of `6.MemPolicy` on one table stores 7 bytes off.
15. **A byte that finds `read_q` full** (`SerialPort!ReceivedIsServed`, `LATE_ARRIVALS = FALSE`, `PROMPT = 1`, `MAX_TYPED = 4` in
    `SerialPortLate.cfg`). `PortReadOne` drops it and returns before the echo. If the transmitter was empty too,
    `PortHandler` then has nothing to write, the transmitter's condition stays up, and with it the interrupt line: the next byte makes
    no edge and the port is deaf from then on, although no byte comes while the handler runs. (Output still goes on, as
    `NothingStuck` says: `PortWriteHandler` writes to the UART itself.)
16. **Free items are 0, not -1** (`CircularQueue!EmptyItemsAreMinusOne`). `queue.c:12` and `queue.h:25` say that `queue_init` sets the items to -1; it
    sets them to 0, as `queue_out` does. Nobody looks at an item that is not in use.
17. **The frame is saved** (`TrapFrames!RunsFromScratch`). The comment in `4.ContextSwitch/src/process.c:63-66` says that the frame is not saved and that a process
    starts over after each switch. `context_switch` saves it (lines 78, 82), and a process goes on where it was interrupted.
18. **`bread` may return no block** (`bio.c:83`). With every buffer in use, `bget` returns the list's head, which is neither busy nor holds a
    block, against `bio.c:57` and `86`. `BreadReturnsBlock` names the case.
19. **Where a user process's pages are** (`8.UserProcess/src/page.c:36-38`). The header has the stack at 0x80000000 and the code 4 MB above; the code
    maps the stack at 0x7FFFF000 and the code at 0x80000000, which is what `PageTables` has.

Comments that differ from the code in what no property is about:

- `7.Syscall/src/events.S:21` has the hardware push an error code for INT 0x80, which pushes none; lines 30 and 41 "load the kernel stack", but the handler
  goes on on the process's.
- `A.ide/include/fs.h:9` has the inodes end before block `ninodes/IPB`; there are `ninodes/IPB + 1` blocks of them, from block 2 on.
- `A.ide/src/bio.c:74-75` and `fs.c:3` speak of a log; there is only the room that `mkfs` leaves for one.
- `8.UserProcess/include/kalloc.h:7-8` gives 0x200000 as 4 MB and 0x800000 as 16 MB.
- `9.serialport/src/handlers.c:216-217` has what the user types appear; with `loopback_q` full, an echo is lost.

## Proofs

TLC checks the numbers above; the theorems hold for every value of the constants.

`IntervalInduction`: the library's induction theorems take a predicate as a parameter. Stated of a *set* of numbers that contains 0 and,
with a number, the next, induction needs no parameter, and a recursive function over an interval can be followed: the links of the
buffer cache, and the loop of `PortHandler` over the ports. It rests on the well-foundedness of < on the natural numbers.

`CircularQueueProofs`: type correctness; tail = head + size modulo the capacity, always; that the slots in use are the `size` ones from `head` on and the others hold 0 (`RingCorrect`); and that
the ring implements `BoundedFifo`. The argument is by the position of the i-th item: `SlotOf` is injective on
1..size, so writing at `tail` disturbs no item and `queue_in` appends, and moving `head` shifts every index by one,
so `queue_out` removes the first. Assumptions: `QUEUE_SIZE` is a positive natural number; items are integers,
0 included, which is also what a cleared slot holds.

`KernelProofs`: the properties of `Kernel` from one inductive invariant, `IInv`. `EveryPidInItsPlace` alone is
not inductive: a step's `Enqueue` does nothing when a queue is full, and then the pid would be lost.
The invariant therefore says that every pid is in its queue once; from that follows, by counting
(a sequence without repeats is no longer than the set it is drawn from), that a queue of pids is
shorter than `QUEUE_SIZE` whenever someone is added. `NoPanic` needs that `Init` is never in a wait queue: it is the
running process or in `ready_q`, so `ready_q` is not empty when the CPU becomes free. And
while `main()` runs the invariant describes `ready_q` and `free_q` exactly (`BootShape`), so that
processes are still there to be created. `IInv` speaks of a kernel memory, `Good(k)`; each handler has a lemma that it
preserves `Good`, and `Scheduler` restores the part about the running process; the theorem's steps
combine them action by action. `SemaphoresCorrect` maps each action to `Allocate`, `P`, `V` or a stutter of
`CountingSemaphore`, using `NoWaiterWhilePasses` (the integer determines passes and waiters) and
`EveryPidInItsPlace` (the caller of `P` is not blocked). `InOrder` is an action property: every handler leaves a queue alone, appends to it
or takes its head, and in a queue without repeats those keep whoever stays behind those who were ahead of him. `SliceBounded` also states that a
running process has ticks left, which no run checks by itself. Assumptions: `KernelAssumption`, as weak as the source's constants justify.

`SerialPortProofs`: for any number of ports and terminal processes, queues, prompts and lines of any length. There are four
invariants, each inductive with those before it.

- `SInv` holds in every run: the kernel's `IInv`, the types and bounds, and who has what. A port belongs to the process that points to it
  (`Owned`), a semaphore is one of its owner's two, which `WriteSid` and `ReadSid` find in EAX or in the port, depending on where in `PortAlloc()`
  the process is (`Sems`), and whoever waits does so on the semaphore of the call it is about to make (`Waiting`). Without these
  a post for one port could free a slot of another. `SerialTypeCorrect` follows.
- `CreditInv`: from the allocation of its semaphores on, a process's passes count its queues (`Counted`), and nothing is in a port until
  `PortAlloc()` has returned (`Quiet`). That a queue that is full, or empty, is never met by a call follows from the count. `WriteCreditKept` and `ReadCreditKept`
  state it for `TYPES_EARLY = FALSE`; finding 5 is that they are false without.
- `OrderInv`: the byte read last, the ring and the byte in the register increase, none beyond what was typed, and the ring's tail is where it has
  to be (`Ordered`). A byte can be dropped but not overtake. `InputInOrder` needs `CreditInv`, for `read_q.size = 0` in `PortAlloc()`.
- `FlowInv`: whoever has something to send waits for an interrupt, or for the end of a byte, which will be one because the line is low (`Flows`).
  `NothingStuck` states it for `LATE_ARRIVALS = FALSE`; finding 1 is the other case.

Every handler has a lemma for each invariant. `PortHandler`'s loop preserves them port by port, by induction on the ports served, since a port's
turn changes only that port, its UART and its own semaphores. A system call or store of a process changes its own entry and
port only (`OwnStep`), which leaves the other processes' counts alone.
Assumptions: `SerialAssumption` and `KernelAssumption`: ports and semaphores suffice, as they do in the program.

`BufferCacheProofs`: for any number of buffers and blocks. `CacheInv` has the types; `ListInv`, that the two link arrays are inverse to each other and that
following `next` reaches every buffer once, from which `ListStaysIntact` follows - `Unlink` and `LinkFirst` are shown to take a buffer out and to put it first; `RequestInv`, at most
one request, which is that of the thread's `iderw`, with the disk's state that belongs to the step it is in; `FlagsInv`, which flags a buffer may have
when; and `ReturnedInv`, what `bread` returned. They hold of every run. The other parts hold under conditions,
each of which a finding shows to be needed: one buffer per block if the thread asks for no block it has (`TAKES_TWICE = FALSE`, finding 6); a
valid buffer has its block if the drive does not fail (`DISK_ERRORS = FALSE`, finding 7); what is not in the cache is on the disk if, further, changes are
written (`FORGETS = FALSE`, finding 2). From all of them `CacheIsBlockStore` maps every step to one of `BlockStore` or a stutter: recycling is a stutter
because a clean buffer's content is the disk's. `RulesKeepChanges` is the property that `cache_forgets` violates,
under the rules that `fs.c` does not keep.
Assumption: `CacheAssumption`: there is a buffer and a block.

`InterruptsProofs`: for every set of devices and traps, no delivered interrupt is without an entry and a handler, and the mask registers
are what was asked for. That nothing panics is not inductive: the invariant adds `Registered` (a line that is not masked has its entry and
handler, and before `ideinit` there is none), `Tables` (a registration has done what its step says, in the order entry,
handler, enable), `Offsets` (a delivered line arrives as the vector it was registered by) and `Order` (interrupts are on only after the boot, which
is why `interrupts_init` may clear the table of handlers). What the controllers deliver is not masked (`NextIsEnabled`); enabling
changes one line's bit only (`EnableOne`, `DisableOne`), because number and vector of a line name the same bit and two lines never do.
`MasksCorrect` adds that the masks are what was asked for, and needs `"disable" \notin Careless`. Assumptions: `InterruptsAssumption`: devices are on
lines other than 2, the disk is one of them, and traps are not among the controllers' vectors.

`FileSystemProofs`: for any number and size of blocks, inodes, slots and files, any disk that `mkfs` makes, any names and paths. The loops of
`mkfs.c`, `fs.c` and `file.c` - over a file's cells, a directory's entries, the elements of a path, the chunks of a write - are recursive
functions; for each there is a lemma that says how it unfolds, and one by induction on its rounds. The inductive invariant `IInv` has four
parts beyond the types and `OneSlotPerInode`: a slot has no fewer references than pointers (`Counted`); who has locked an inode has a pointer to it
(`BusyHeld`), for `iput` keeps the last reference to a locked inode without links and would otherwise lose it; a slot in use is for an inode of
the disk; and an open file is for a slot (`OpenOK`). Each function has a lemma on what it does to references: nothing (`Leaves`, `Keeps`, `Holds`), one
more (`Gained`), one less (`Dropped`), or some more (`Grew`, for `namex`). Closing a file is shown as two steps, the file's reference going to
the client and the client putting it. `FSTypeCorrect` needs to know what is in directories: entries with a name are for inodes of the disk or
empty, which `mkfs` establishes and every write preserves. Nothing depends on blocks being in one place, so the theorems include runs in which
`balloc` gives out block 0 or a directory that was never read is searched (findings 9 and 11). 
`FreedWhenUnused` needs a second invariant, `LInv`, of what links, names and slots say about each other: an inode that is free has no links, one
that a directory names has some, the root too (`LinksOK`); a slot that has been read has the type and links of its inode on the disk, who has locked a slot
has read it, and a slot in use is for an inode that is not free (`SlotsOK`). Each function has a lemma on what it changes of those (`Alike`: nothing, and names
nothing new; `Safe`: frees nothing), and `iput`, the one that frees, is shown to free an inode without links, by its last reference (`Frees`). With
`IInv`, then, nobody else points to it, and with `LinksOK` no directory names it. That a lookup's result has links is because it was named; that
a directory the walk is in stays, because whoever walks has a reference. Assumptions: `DiskAssumption` and
`FileSystemAssumption`: names are not empty, and not what stands for a file's content; there are no more inodes than blocks; the log has six blocks, or `filewrite` would write in chunks of
none and not end; and what `mkfs` was called with fits on the disk (`Fits`), of which `mkfs.c` itself asserts only the lengths of files.

`PageTablesProofs`: for pages and pools of any size, any addresses and values. The list of free pages is kept in the pages, so everything rests on
where pages are. Nothing is freed after `kinit()`, so the free pages are always the lowest of the pool, `lo .. hi`, and the list goes
through them downwards. The inductive invariant `Inv` is `Loaded` (the active process's directory is in CR3, processes are created in
order, and process 0 of `8.UserProcess` runs in SPEDE's directory) and `Pages`, one shape per example. For `5.PageFault` it says what is in the one
table and page. For the other two it is `Layout`: a function `use` gives each page above `hi` one use - directory, table, or page of an address, of one process -
and `own` gives each process the addresses it has; every entry of a directory or table is the one those uses ask for. Two pages with different uses are different pages:
`PagesStayApart` follows, once the list is shown to reach every free page, by induction on its length, and so
does that a store of one process changes no word that another can reach. `8.UserProcess` also needs that what is below
the pool stays as SPEDE left it (`LowPages`). `kalloc`, `kpagemake`, both `setup_pagetable` and the faults each have a lemma on what they do to `Layout`.
`KernelIsMapped` follows from the shape of directories. For `MemoriesArePrivate`, each step is shown to be one of `PrivateMemory` - a word appears with what a new page holds,
or a process changes one of its own - or a stutter, as creation and switches are.
Two hypotheses are on the addresses of `6.MemPolicy` in addition to the code's own. `OwnEntries`: no two are behind one
directory entry; finding 14 is that without it the second fault stores into the wrong words. `EnoughPages`: there are pages for both processes; the code does not check what
`kalloc` returns. For the program as it is, whose processes use one address (`Others = {}`), both are proved (`AsInTheCode`), so that nothing is assumed of it;
they also hold in the run `pages`. Assumption: `PageTablesAssumption`: a page has a multiple of four words, at least 20, and the
pool is 6 pages or more.

Only model-checked: the rest of `FileSystem` (`ValidAgrees`, `BlocksAccounted`, `NamesUnique`, `NameiFinds`,
`ImplementsFileStore`), which depends on where the blocks of every file are; `TrapFrames`, which uses a
`RECURSIVE` operator, for which the prover has no SMT backend; and liveness (`NoStarvation`, `BytesAreRead`, `CallsReturn`, `RequestsAreServed`) with fairness
and `ENABLED`, which are out of its reach.

## Limits

- Machine code. In `Kernel` and `SerialPort`, `events.S` is what it is for: it saves a process's registers on its own stack and
  restores them. That it does is what `TrapFrames` checks.
- Compiler. `9.serialport` is built without optimisation; `port[]` is not volatile, and an optimising
  compiler could cache `port[port_num].read_sid` across a system call only if it ignored the `"memory"` clobbers. `iderw` spins on
  `b->flags`, which is not volatile either; `A.ide` is built without optimisation too, and the loop reads it each time.
- `BufferCache` asks for blocks of the disk only. For another number `idestart` does nothing and `iderw` never returns.
  The drive is taken to be there (`havedisk1`) and `ideinit` is left out.
- Several ports. The runs have one, as the program has one `TermProc`; the theorems are about any number. COM2 and COM4 share an interrupt line,
  which matters only with two.
- `Init`'s console keys: they print, stop in the debugger or end the simulation.
- `cpu_time` and `passes` are natural numbers: their bounds are proved or assumed, far from 2^31.
- `FileSystem` takes every block to be found and kept by the cache, and one call at a time; `A.ide` has one thread. `devsw` is empty, and no pipe is made.
- `PageTables`: the translation cache of the processor is taken to be flushed by loading CR3, as it is, and only there does the code need it.

### Not modelled

- `0.VGA`, `0.VGA_Advanced`, `0.calling_convention`: straight-line programs that write to video memory or print.
- `2.Keyboard_Polling`, `3.com2_polling`: loops that wait for one device, without a second actor.
- What the handlers of `1.*`, `2.*`, `3.*` and `TimerEvent` display. `isr0_solution`, which the program does not register, and the fault
  entries of `4.KernelProcess`, for vectors nothing raises there.
- `gdt.c` and the descriptors `main()` fills: constants of the processor's format. Selectors stand for themselves in `TrapFrames`.
- `kernel.c` of `A.ide`: logging; `kernel_panic` is the state `cpu.panic`.
- `ProjectDemo`: compiled images without source.
