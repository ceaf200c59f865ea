--------------------------- MODULE InterruptsProofs ---------------------------
(***************************************************************************)
(* Proofs about Interrupts, for every set of devices and traps: whatever   *)
(* interrupts the boot, a registration or the program, it finds an entry   *)
(* and a handler, and the mask registers are what was asked for.           *)
(***************************************************************************)
EXTENDS Interrupts, TLAPS

Chip == {PIC1, PIC2}

PicType ==
  [mask : [Chip -> SUBSET (0 .. 7)], request : [Chip -> SUBSET (0 .. 7)],
   service : [Chip -> SUBSET (0 .. 7)],
   offset : [Chip -> {8, 112, T_IRQ0, T_IRQ0 + 8}], aeoi : AutoEoi]

Calls == [vector : Vectors, entry : {"direct", "dispatch"}, step : {"gate", "handler", "enable"}]

MainType ==
  [at : {"picinit", "interrupts_init", "ideinit", "interrupts_enable", "ready"},
   call : {NoCall} \cup Calls]

TableType ==
  [idt : [Vectors -> {"none", "direct", "dispatch"}], handlers : [Vectors -> BOOLEAN]]

CpuType == [enabled : BOOLEAN, vector : -1 .. 239, saved : BOOLEAN, panic : BOOLEAN]

TypeInv ==
  /\ pic \in PicType /\ table \in TableType /\ cpu \in CpuType
  /\ main \in MainType /\ asked \subseteq Devices

\* An interrupt with this vector goes well.
Handled(vector) == table.idt[vector] # "none" /\ table.handlers[vector]

\* Where main() can be when it registers, has interrupts on, or is interrupted.
Order ==
  /\ main.call # NoCall => main.at \in {"interrupts_enable", "ready"}
  /\ cpu.enabled \/ cpu.saved \/ cpu.vector # None => main.at = "ready"

\* From picinit on the controllers deliver the vectors the program registers.
Offsets == main.at # "picinit" => pic.offset[PIC1] = T_IRQ0 /\ pic.offset[PIC2] = T_IRQ0 + 8

\* A line is enabled after its entry and its handler are there, and none before ideinit.
Registered ==
  main.at # "picinit" =>
    \A line \in Devices : pic_irq_enabled(pic, line) =>
      main.at \in {"interrupts_enable", "ready"} /\ Handled(VectorOf(line))

\* A handler has an entry, and a registration has done what its step says.
Tables ==
  /\ \A vector \in Vectors : table.handlers[vector] => table.idt[vector] # "none"
  /\ main.call # NoCall =>
       /\ main.call.step \in {"handler", "enable"} => table.idt[main.call.vector] # "none"
       /\ main.call.step = "enable" => table.handlers[main.call.vector]

\* The interrupt that is being handled goes well, and so did those before it.
Going == cpu.vector # None => cpu.vector \in Vectors /\ Handled(cpu.vector)

\* The inductive invariant.
IInv ==
  /\ TypeInv
  /\ Order /\ Offsets /\ Registered /\ Tables /\ Going
  /\ EveryInterruptHasHandler

-------------------------------------------------------------------------------
(* Lines, controllers and bits *)

\* A line's number and its vector name the same bit of the same controller.
LEMMA SameBit ==
  ASSUME NEW line \in 0 .. 15, NEW irq \in {line, VectorOf(line)}
  PROVE  /\ irq % 16 = line
         /\ PicOf(irq) = (IF line >= 8 THEN PIC2 ELSE PIC1)
         /\ BitOf(irq) = (IF line >= 8 THEN line - 8 ELSE line)
  BY DEF VectorOf, PicOf, BitOf, T_IRQ0

\* A bit of a controller is one line's.
LEMMA OneLine ==
  ASSUME NEW line \in 0 .. 15, NEW other \in 0 .. 15,
         PicOf(line) = PicOf(other), BitOf(line) = BitOf(other)
  PROVE  line = other
  BY SameBit DEF PIC1, PIC2

\* A line's bit is of a controller.
LEMMA BitInRange ==
  ASSUME NEW line \in 0 .. 15, NEW irq \in {line, VectorOf(line)}
  PROVE  PicOf(irq) \in Chip /\ BitOf(irq) \in 0 .. 7 /\ PicOf(irq) = PicOf(line) /\ BitOf(irq) = BitOf(line)
  BY SameBit DEF Chip

\* The vectors of the devices are 32 to 47, and no trap is among them.
LEMMA VectorsInRange ==
  /\ Devices \subseteq 0 .. 15
  /\ Vectors \subseteq 0 .. 239
  /\ \A vector \in Vectors : IsPicVector(vector) => vector - T_IRQ0 \in Devices /\ vector \notin Traps
  /\ \A vector \in Vectors : ~IsPicVector(vector) => vector \in Traps
  /\ \A line \in Devices : VectorOf(line) \in Vectors /\ IsPicVector(VectorOf(line))
  /\ IRQ_IDE \in Vectors
<1>1. Devices \subseteq 0 .. 15
  BY InterruptsAssumption
<1>2. \A line \in Devices : VectorOf(line) \in Vectors /\ VectorOf(line) = 32 + line
  BY DEF Vectors, VectorOf, T_IRQ0
<1>3. \A vector \in Vectors : vector \in Traps \/ \E line \in Devices : vector = 32 + line
  BY DEF Vectors, VectorOf, T_IRQ0
<1>4. Traps \subseteq (0 .. 31) \cup (48 .. 239)
  BY InterruptsAssumption
<1>5. IRQ_IDE \in Vectors
  BY <1>2, InterruptsAssumption DEF IRQ_IDE
<1>6. ASSUME NEW vector \in Vectors
      PROVE  vector \in 0 .. 239 /\ vector \in Int
  <2>1. CASE vector \in Traps
    BY <1>4, <2>1
  <2>2. CASE \E line \in Devices : vector = 32 + line
    BY <1>1, <2>2
  <2> QED
    BY <1>3, <2>1, <2>2
<1>7. ASSUME NEW vector \in Vectors, IsPicVector(vector)
      PROVE  vector - T_IRQ0 \in Devices /\ vector \notin Traps
  <2>1. vector \notin Traps
    BY <1>4, <1>6, <1>7 DEF IsPicVector, T_IRQ0
  <2>2. PICK line \in Devices : vector = 32 + line
    BY <1>3, <2>1
  <2>3. vector - T_IRQ0 = line
    BY <1>1, <2>2 DEF T_IRQ0
  <2> QED
    BY <2>1, <2>3
<1>8. ASSUME NEW vector \in Vectors, ~IsPicVector(vector)
      PROVE  vector \in Traps
  BY <1>1, <1>3, <1>8 DEF IsPicVector, T_IRQ0
<1>9. \A line \in Devices : IsPicVector(VectorOf(line))
  BY <1>1, <1>2 DEF IsPicVector, T_IRQ0
<1> QED
  BY <1>1, <1>2, <1>5, <1>6, <1>7, <1>8, <1>9

\* Enabling a line clears its bit and no other.
LEMMA EnableOne ==
  ASSUME NEW p \in PicType, NEW line \in 0 .. 15, NEW irq \in {line, VectorOf(line)}
  PROVE  /\ pic_irq_enable(p, irq) \in PicType
         /\ pic_irq_enable(p, irq).offset = p.offset
         /\ \A other \in 0 .. 15 :
              pic_irq_enabled(pic_irq_enable(p, irq), other) <=> pic_irq_enabled(p, other) \/ other = line
<1> DEFINE q == pic_irq_enable(p, irq)
<1>1. PicOf(irq) \in Chip /\ PicOf(irq) = PicOf(line) /\ BitOf(irq) = BitOf(line)
  BY BitInRange
<1>2. q = [p EXCEPT !.mask = [p.mask EXCEPT ![PicOf(line)] = @ \ {BitOf(line)}]]
  BY <1>1 DEF pic_irq_enable, PicType
<1>3. q \in PicType /\ q.offset = p.offset /\ q.mask = [p.mask EXCEPT ![PicOf(line)] = @ \ {BitOf(line)}]
  BY <1>1, <1>2 DEF PicType
<1>4. ASSUME NEW other \in 0 .. 15
      PROVE  pic_irq_enabled(q, other) <=> pic_irq_enabled(p, other) \/ other = line
  <2>1. PicOf(other) \in Chip
    BY BitInRange
  <2>2. PicOf(line) = PicOf(other) /\ BitOf(line) = BitOf(other) => line = other
    BY OneLine
  <2>3. p.mask \in [Chip -> SUBSET (0 .. 7)]
    BY DEF PicType
  <2> QED
    BY <1>1, <1>3, <2>1, <2>2, <2>3 DEF pic_irq_enabled
<1> QED
  BY <1>3, <1>4

\* Disabling a line flips its bit and no other.
LEMMA DisableOne ==
  ASSUME NEW p \in PicType, NEW line \in 0 .. 15, NEW irq \in {line, VectorOf(line)}
  PROVE  /\ pic_irq_disable(p, irq) \in PicType
         /\ pic_irq_disable(p, irq).offset = p.offset
         /\ \A other \in 0 .. 15 :
              pic_irq_enabled(pic_irq_disable(p, irq), other) <=>
                IF other = line THEN ~pic_irq_enabled(p, other) ELSE pic_irq_enabled(p, other)
<1> DEFINE q == pic_irq_disable(p, irq)
           Flipped(bits) == IF BitOf(line) \in bits THEN bits \ {BitOf(line)} ELSE bits \cup {BitOf(line)}
<1>1. PicOf(irq) \in Chip /\ PicOf(irq) = PicOf(line) /\ BitOf(irq) = BitOf(line) /\ BitOf(line) \in 0 .. 7
  BY BitInRange
<1>2. q = [p EXCEPT !.mask = [p.mask EXCEPT ![PicOf(line)] = Flipped(p.mask[PicOf(line)])]]
  BY <1>1 DEF pic_irq_disable, PicType
<1>3. p.mask \in [Chip -> SUBSET (0 .. 7)]
  BY DEF PicType
<1>4. Flipped(p.mask[PicOf(line)]) \in SUBSET (0 .. 7)
  BY <1>1, <1>3
<1> HIDE DEF Flipped
<1>5. q \in PicType /\ q.offset = p.offset /\ q.mask = [p.mask EXCEPT ![PicOf(line)] = Flipped(p.mask[PicOf(line)])]
  BY <1>1, <1>2, <1>4 DEF PicType
<1>6. ASSUME NEW other \in 0 .. 15
      PROVE  pic_irq_enabled(q, other) <=>
               IF other = line THEN ~pic_irq_enabled(p, other) ELSE pic_irq_enabled(p, other)
  <2>1. PicOf(other) \in Chip
    BY BitInRange
  <2>2. PicOf(line) = PicOf(other) /\ BitOf(line) = BitOf(other) => line = other
    BY OneLine
  <2>3. CASE PicOf(other) = PicOf(line)
    <3>1. q.mask[PicOf(other)] = Flipped(p.mask[PicOf(line)])
      BY <1>1, <1>3, <1>5, <2>3
    <3> QED
      BY <2>2, <2>3, <3>1 DEF pic_irq_enabled, Flipped
  <2>4. CASE PicOf(other) # PicOf(line)
    BY <1>3, <1>5, <2>1, <2>4 DEF pic_irq_enabled
  <2> QED
    BY <2>3, <2>4
<1> QED
  BY <1>5, <1>6

\* After picinit every line is masked, and the controllers have their vectors.
LEMMA PicinitMasks ==
  ASSUME NEW p \in PicType
  PROVE  /\ picinit(p) \in PicType
         /\ picinit(p).offset[PIC1] = T_IRQ0 /\ picinit(p).offset[PIC2] = T_IRQ0 + 8
         /\ \A line \in Devices : ~pic_irq_enabled(picinit(p), line)
<1> DEFINE one == SetUp(p, PIC1, T_IRQ0)
           two == SetUp(one, PIC2, T_IRQ0 + 8)
<1>1. one \in PicType /\ one.offset[PIC1] = T_IRQ0
  BY DEF SetUp, PicType, Chip, PIC1, PIC2, T_IRQ0
<1> HIDE DEF one
<1>2. two \in PicType /\ two.offset[PIC1] = T_IRQ0 /\ two.offset[PIC2] = T_IRQ0 + 8
  BY <1>1 DEF SetUp, PicType, Chip, PIC1, PIC2, T_IRQ0
<1> HIDE DEF two
<1>3. picinit(p) = [two EXCEPT !.mask = irqmask]
  BY DEF picinit, picsetmask, one, two
<1>4. irqmask \in [Chip -> SUBSET (0 .. 7)]
  BY DEF irqmask, Chip
<1>5. picinit(p) \in PicType /\ picinit(p).offset = two.offset /\ picinit(p).mask = irqmask
  BY <1>2, <1>3, <1>4 DEF PicType
<1>6. \A line \in Devices : BitOf(line) \in irqmask[PicOf(line)]
  BY SameBit, InterruptsAssumption DEF irqmask, PIC1, PIC2, IRQ_SLAVE
<1> QED
  BY <1>2, <1>5, <1>6 DEF pic_irq_enabled

-------------------------------------------------------------------------------
(* The invariant *)

LEMMA InitIInv == Init => IInv
<1> SUFFICES ASSUME Init PROVE IInv
  OBVIOUS
<1>1. PICK aeoi \in AutoEoi, masks \in {{}, 0 .. 7} :
        pic = [mask    |-> [chip \in Chip |-> masks],
               request |-> [chip \in Chip |-> {}],
               service |-> [chip \in Chip |-> {}],
               offset  |-> [chip \in Chip |-> IF chip = PIC1 THEN 8 ELSE 112],
               aeoi    |-> aeoi]
  BY DEF Init, Chip
<1>2. pic \in PicType
  BY <1>1 DEF PicType
<1>3. cpu \in CpuType
  BY DEF Init, None, CpuType
<1>4. table \in TableType
  BY DEF Init, TableType
<1>5. main = [at |-> "picinit", call |-> NoCall] /\ main \in MainType /\ asked = {}
  BY DEF Init, MainType
<1>6. TypeInv
  BY <1>2, <1>3, <1>4, <1>5 DEF TypeInv
<1>7. Order /\ Offsets /\ Registered /\ Going
  BY <1>5 DEF Order, Offsets, Registered, Going, Init
<1>8. Tables
  BY <1>5 DEF Tables, Init
<1> QED
  BY <1>6, <1>7, <1>8 DEF IInv, EveryInterruptHasHandler, Init

LEMMA TypeInvSuffices == TypeInv => PicTypeOK
  BY DEF TypeInv, PicTypeOK, PicType, Chip, TableType, CpuType, MainType, Calls

-------------------------------------------------------------------------------
(* Every step keeps the invariant.  First the boot's. *)

LEMMA PicinitKeeps == IInv /\ Picinit => IInv'
<1> SUFFICES ASSUME IInv, Picinit PROVE IInv'
  OBVIOUS
<1> USE DEF IInv, TypeInv
<1>1. pic' = picinit(pic) /\ main' = [main EXCEPT !.at = "interrupts_init"]
      /\ UNCHANGED <<table, cpu, asked>> /\ main.call = NoCall
  BY DEF Picinit, Runs
<1>2. main' \in MainType /\ main'.at = "interrupts_init" /\ main'.call = NoCall
  BY <1>1 DEF MainType
<1>3. /\ pic' \in PicType /\ pic'.offset[PIC1] = T_IRQ0 /\ pic'.offset[PIC2] = T_IRQ0 + 8
      /\ \A line \in Devices : ~pic_irq_enabled(pic', line)
  BY <1>1, PicinitMasks
<1>4. Order'
  BY <1>1, <1>2 DEF Order, Picinit, Runs
<1>5. Offsets' /\ Registered'
  BY <1>3 DEF Offsets, Registered
<1>6. Tables' /\ Going' /\ EveryInterruptHasHandler'
  BY <1>1, <1>2 DEF Tables, Going, EveryInterruptHasHandler, Handled
<1> QED
  BY <1>1, <1>2, <1>3, <1>4, <1>5, <1>6

LEMMA InterruptsInitKeeps == IInv /\ interrupts_init => IInv'
<1> SUFFICES ASSUME IInv, interrupts_init PROVE IInv'
  OBVIOUS
<1> USE DEF IInv, TypeInv
<1>1. /\ table' = [table EXCEPT !.handlers = [v \in Vectors |-> FALSE]]
      /\ main' = [main EXCEPT !.at = "ideinit"]
      /\ UNCHANGED <<pic, cpu, asked>>
      /\ main.at = "interrupts_init" /\ main.call = NoCall /\ cpu.vector = None
  BY DEF interrupts_init, Runs
<1>2. main' \in MainType /\ main'.at = "ideinit" /\ main'.call = NoCall
  BY <1>1 DEF MainType
<1>3. table' \in TableType /\ \A v \in Vectors : ~table'.handlers[v]
  BY <1>1 DEF TableType
<1>4. Order'
  BY <1>1, <1>2 DEF Order
<1>5. Offsets' /\ Registered'
  BY <1>1, <1>2 DEF Offsets, Registered
<1>6. Tables' /\ Going' /\ EveryInterruptHasHandler'
  BY <1>1, <1>2, <1>3 DEF Tables, Going, EveryInterruptHasHandler
<1> QED
  BY <1>1, <1>2, <1>3, <1>4, <1>5, <1>6

LEMMA IdeinitKeeps == IInv /\ ideinit => IInv'
<1> SUFFICES ASSUME IInv, ideinit PROVE IInv'
  OBVIOUS
<1> USE DEF IInv, TypeInv
<1>1. /\ main' = [at |-> "interrupts_enable", call |-> Calling(IRQ_IDE, "direct")]
      /\ UNCHANGED <<pic, table, cpu, asked>>
      /\ main.at = "ideinit" /\ main.call = NoCall
  BY DEF ideinit, Runs
<1>2. main' \in MainType /\ main'.at = "interrupts_enable" /\ main'.call.step = "gate"
  BY <1>1, VectorsInRange DEF MainType, Calls, Calling
<1>3. Order'
  BY <1>1, <1>2 DEF Order
<1>4. Offsets' /\ Registered'
  BY <1>1, <1>2 DEF Offsets, Registered
<1>5. Tables' /\ Going' /\ EveryInterruptHasHandler'
  BY <1>1, <1>2 DEF Tables, Going, EveryInterruptHasHandler, Handled
<1> QED
  BY <1>1, <1>2, <1>3, <1>4, <1>5

\* The interrupt flag.
LEMMA FlagKeeps == IInv /\ (interrupts_enable \/ interrupts_disable) => IInv'
<1> SUFFICES ASSUME IInv, interrupts_enable \/ interrupts_disable PROVE IInv'
  OBVIOUS
<1> USE DEF IInv, TypeInv
<1>1. /\ UNCHANGED <<pic, table, asked>>
      /\ main.at \in {"interrupts_enable", "ready"} /\ main.call = NoCall
      /\ main' = [main EXCEPT !.at = "ready"]
      /\ \E on \in BOOLEAN : cpu' = [cpu EXCEPT !.enabled = on]
  BY DEF interrupts_enable, interrupts_disable, Runs, MainType
<1>2. main' \in MainType /\ main'.at = "ready" /\ main'.call = NoCall
  BY <1>1 DEF MainType
<1>3. cpu' \in CpuType /\ cpu'.vector = cpu.vector /\ cpu'.panic = cpu.panic
  BY <1>1 DEF CpuType
<1>4. Order'
  BY <1>2 DEF Order
<1>5. Offsets' /\ Registered'
  BY <1>1, <1>2 DEF Offsets, Registered, Handled
<1>6. Tables' /\ Going' /\ EveryInterruptHasHandler'
  BY <1>1, <1>2, <1>3 DEF Tables, Going, EveryInterruptHasHandler, Handled
<1> QED
  BY <1>1, <1>2, <1>3, <1>4, <1>5, <1>6

\* A call to register an interrupt, and its steps.
LEMMA RegisterKeeps ==
  ASSUME IInv, NEW vector \in Vectors, NEW entry \in {"direct", "dispatch"}, Register(vector, entry)
  PROVE  IInv'
<1> USE DEF IInv, TypeInv
<1>1. vector \in 0 .. 239
  BY VectorsInRange
<1>2. /\ main' = [main EXCEPT !.call = Calling(vector, entry)]
      /\ UNCHANGED <<pic, table, cpu, asked>>
      /\ main.at = "ready" /\ main.call = NoCall
  BY <1>1 DEF Register, Runs, IRQ_MAX
<1>3. main' \in MainType /\ main'.at = "ready" /\ main'.call.step = "gate"
  BY <1>2 DEF MainType, Calls, Calling
<1>4. Order'
  BY <1>3 DEF Order
<1>5. Offsets' /\ Registered'
  BY <1>2, <1>3 DEF Offsets, Registered, Handled
<1>6. Tables' /\ Going' /\ EveryInterruptHasHandler'
  BY <1>2, <1>3 DEF Tables, Going, EveryInterruptHasHandler, Handled
<1> QED
  BY <1>2, <1>3, <1>4, <1>5, <1>6

\* Only the step that enables touches the controllers, and only the vector's line.
LEMMA EnableIfPicOne ==
  ASSUME NEW p \in PicType, NEW vector \in Vectors
  PROVE  /\ EnableIfPic(p, vector) \in PicType
         /\ EnableIfPic(p, vector).offset = p.offset
         /\ \A line \in Devices :
              pic_irq_enabled(EnableIfPic(p, vector), line) <=>
                pic_irq_enabled(p, line) \/ vector = VectorOf(line)
<1>1. CASE IsPicVector(vector)
  <2>1. vector - T_IRQ0 \in Devices /\ Devices \subseteq 0 .. 15 /\ vector \in 0 .. 239
    BY <1>1, VectorsInRange
  <2>2. PICK at \in 0 .. 15 : vector = VectorOf(at)
    BY <2>1 DEF VectorOf, T_IRQ0
  <2>3. \A line \in Devices : vector = VectorOf(line) <=> line = at
    BY <2>1, <2>2 DEF VectorOf, T_IRQ0
  <2>4. EnableIfPic(p, vector) = pic_irq_enable(p, vector)
    BY <1>1 DEF EnableIfPic
  <2> QED
    BY <2>1, <2>2, <2>3, <2>4, EnableOne
<1>2. CASE ~IsPicVector(vector)
  <2>1. \A line \in Devices : vector # VectorOf(line)
    BY <1>2, VectorsInRange
  <2> QED
    BY <1>2, <2>1 DEF EnableIfPic
<1> QED
  BY <1>1, <1>2

LEMMA StepKeeps == IInv /\ interrupts_irq_register => IInv'
<1> SUFFICES ASSUME IInv, interrupts_irq_register PROVE IInv'
  OBVIOUS
<1> USE DEF IInv, TypeInv
<1> DEFINE vector == main.call.vector
<1>1. main.call \in Calls /\ vector \in Vectors /\ cpu.vector = None /\ UNCHANGED cpu
  BY DEF interrupts_irq_register, MainType, Calls
<1>2. main.call.step \in {"gate", "handler", "enable"}
  BY <1>1 DEF Calls
<1>3. Order'
  BY <1>1 DEF interrupts_irq_register, Order, MainType
<1>4. Going' /\ EveryInterruptHasHandler'
  BY <1>1 DEF Going, EveryInterruptHasHandler
<1>5. CASE main.call.step = "gate"
  <2>1. /\ table' = [table EXCEPT !.idt[vector] = main.call.entry] /\ UNCHANGED <<pic, asked>>
        /\ main' = [main EXCEPT !.call = [@ EXCEPT !.step = "handler"]]
    BY <1>5 DEF interrupts_irq_register, Step, FillGate
  <2>2. main' \in MainType /\ main'.at = main.at /\ main'.call \in Calls
        /\ main'.call.vector = vector /\ main'.call.step = "handler"
    BY <1>1, <2>1 DEF MainType, Calls
  <2>3. table' \in TableType /\ table'.handlers = table.handlers
        /\ table'.idt[vector] # "none" /\ \A v \in Vectors : table.idt[v] # "none" => table'.idt[v] # "none"
    BY <1>1, <2>1 DEF TableType, Calls
  <2>4. Offsets' /\ Registered'
    BY <2>1, <2>2, <2>3, VectorsInRange DEF Offsets, Registered, Handled
  <2>5. Tables'
    BY <2>2, <2>3 DEF Tables
  <2> QED
    BY <1>1, <1>3, <1>4, <2>1, <2>2, <2>3, <2>4, <2>5
<1>6. CASE main.call.step = "handler"
  <2>1. /\ table' = [table EXCEPT !.handlers[vector] = TRUE] /\ UNCHANGED <<pic, asked>>
        /\ main' = [main EXCEPT !.call = [@ EXCEPT !.step = "enable"]]
    BY <1>6 DEF interrupts_irq_register, Step, AddHandler
  <2>2. main' \in MainType /\ main'.at = main.at /\ main'.call \in Calls
        /\ main'.call.vector = vector /\ main'.call.step = "enable"
    BY <1>1, <2>1 DEF MainType, Calls
  <2>3. table' \in TableType /\ table'.idt = table.idt /\ table'.handlers[vector]
        /\ \A v \in Vectors : v # vector => table'.handlers[v] = table.handlers[v]
    BY <1>1, <2>1 DEF TableType
  <2>4. table.idt[vector] # "none"
    BY <1>1, <1>6 DEF Tables, interrupts_irq_register
  <2>5. Offsets' /\ Registered'
    BY <2>1, <2>2, <2>3, VectorsInRange DEF Offsets, Registered, Handled
  <2>6. Tables'
    BY <2>2, <2>3, <2>4 DEF Tables
  <2> QED
    BY <1>1, <1>3, <1>4, <2>1, <2>2, <2>3, <2>5, <2>6
<1>7. CASE main.call.step = "enable"
  <2>1. /\ pic' = EnableIfPic(pic, vector) /\ UNCHANGED table
        /\ main' = [main EXCEPT !.call = NoCall]
        /\ asked' = IF vector \notin Traps THEN asked \cup {vector - T_IRQ0} ELSE asked
    BY <1>7 DEF interrupts_irq_register, Step
  <2>2. main' \in MainType /\ main'.at = main.at /\ main'.call = NoCall
    BY <2>1 DEF MainType
  <2>3. asked' \subseteq Devices
    BY <1>1, <2>1, VectorsInRange
  <2>4. /\ pic' \in PicType /\ pic'.offset = pic.offset
        /\ \A line \in Devices :
             pic_irq_enabled(pic', line) <=> pic_irq_enabled(pic, line) \/ vector = VectorOf(line)
    BY <1>1, <2>1, EnableIfPicOne
  <2>5. Handled(vector) /\ main.at \in {"interrupts_enable", "ready"}
    BY <1>1, <1>7 DEF Tables, Handled, Order, interrupts_irq_register
  <2>6. Offsets' /\ Registered'
    BY <2>1, <2>2, <2>4, <2>5 DEF Offsets, Registered, Handled
  <2>7. Tables'
    BY <2>1, <2>2 DEF Tables
  <2> QED
    BY <1>1, <1>3, <1>4, <2>1, <2>2, <2>3, <2>4, <2>6, <2>7
<1> QED
  BY <1>2, <1>5, <1>6, <1>7

\* A line is enabled or disabled: the others stay as they are, and this one is handled.
LEMMA LineKeeps ==
  ASSUME IInv, NEW line \in Devices, NEW irq \in {line, VectorOf(line)},
         EnableLine(irq) \/ DisableLine(irq)
  PROVE  IInv'
<1> USE DEF IInv, TypeInv
<1>1. line \in 0 .. 15 /\ irq % 16 = line
  BY VectorsInRange, SameBit
<1>2. /\ UNCHANGED <<table, cpu, main>> /\ asked' \subseteq Devices
      /\ main.at = "ready" /\ table.handlers[VectorOf(line)]
      /\ pic' \in {pic_irq_enable(pic, irq), pic_irq_disable(pic, irq)}
  BY <1>1 DEF EnableLine, DisableLine, Runs
<1>3. /\ pic' \in PicType /\ pic'.offset = pic.offset
      /\ \A other \in 0 .. 15 :
           pic_irq_enabled(pic', other) => pic_irq_enabled(pic, other) \/ other = line
  <2>1. CASE pic' = pic_irq_enable(pic, irq)
    BY <1>1, <2>1, EnableOne
  <2>2. CASE pic' = pic_irq_disable(pic, irq)
    BY <1>1, <2>2, DisableOne
  <2> QED
    BY <1>2, <2>1, <2>2
<1>4. Handled(VectorOf(line))
  BY <1>2, VectorsInRange DEF Tables, Handled
<1>5. Offsets' /\ Registered'
  BY <1>2, <1>3, <1>4, VectorsInRange DEF Offsets, Registered, Handled
<1>6. Order' /\ Tables' /\ Going' /\ EveryInterruptHasHandler'
  BY <1>2 DEF Order, Tables, Going, EveryInterruptHasHandler, Handled
<1> QED
  BY <1>2, <1>3, <1>5, <1>6

\* Requests and interrupts in service do not enable a line.
LEMMA MasksStay ==
  ASSUME IInv, pic' \in PicType, pic'.mask = pic.mask, pic'.offset = pic.offset,
         UNCHANGED <<table, main>>
  PROVE  Offsets' /\ Registered' /\ Tables'
  BY DEF IInv, Offsets, Registered, Tables, Handled, pic_irq_enabled

LEMMA RaiseKeeps ==
  ASSUME IInv, NEW line \in Devices, Raise(line)
  PROVE  IInv' /\ pic'.mask = pic.mask /\ UNCHANGED <<main, asked>>
<1> USE DEF IInv, TypeInv
<1>1. PicOf(line) \in Chip /\ BitOf(line) \in 0 .. 7
  BY VectorsInRange, BitInRange
<1>2. /\ pic' = [pic EXCEPT !.request[PicOf(line)] = @ \cup {BitOf(line)}]
      /\ UNCHANGED <<table, cpu, main, asked>>
  BY DEF Raise
<1>3. pic' \in PicType /\ pic'.mask = pic.mask /\ pic'.offset = pic.offset
  BY <1>1, <1>2 DEF PicType
<1>4. Order' /\ Going' /\ EveryInterruptHasHandler'
  BY <1>2 DEF Order, Going, EveryInterruptHasHandler, Handled
<1> QED
  BY <1>2, <1>3, <1>4, MasksStay

LEMMA AcknowledgeType ==
  ASSUME NEW p \in PicType, NEW chip \in Chip, NEW bit \in 0 .. 7
  PROVE  /\ Acknowledge(p, chip, bit) \in PicType
         /\ Acknowledge(p, chip, bit).mask = p.mask /\ Acknowledge(p, chip, bit).offset = p.offset
  BY DEF Acknowledge, PicType

\* What the controllers deliver next is not masked.
LEMMA NextIsEnabled ==
  ASSUME pic \in PicType, NEW line \in Devices, IsNext(pic, line)
  PROVE  pic_irq_enabled(pic, line)
<1>1. line \in 0 .. 15
  BY VectorsInRange
<1>2. CASE line >= 8
  <2>1. line - 8 \in Bits(pic, PIC2)
    BY <1>2 DEF IsNext, Least
  <2> QED
    BY <1>1, <1>2, <2>1, SameBit DEF Bits, pic_irq_enabled
<1>3. CASE ~(line >= 8)
  <2> DEFINE asks(cascaded) == [pic EXCEPT !.request[PIC1] = @ \cup cascaded]
  <2>1. PICK cascaded : line \in Bits(asks(cascaded), PIC1)
    BY <1>3 DEF IsNext, Least, MasterBits
  <2>2. asks(cascaded).mask = pic.mask
    BY DEF PicType
  <2> QED
    BY <1>1, <1>3, <2>1, <2>2, SameBit DEF Bits, pic_irq_enabled
<1> QED
  BY <1>2, <1>3

LEMMA DeliverKeeps ==
  ASSUME IInv, NEW line \in Devices, Deliver(line)
  PROVE  IInv' /\ pic'.mask = pic.mask /\ UNCHANGED <<main, asked>>
<1> USE DEF IInv, TypeInv
<1>1. line \in 0 .. 15 /\ PicOf(line) \in Chip /\ BitOf(line) \in 0 .. 7
  BY VectorsInRange, BitInRange
<1>2. /\ pic' = Delivered(pic, line) /\ UNCHANGED <<table, main, asked>>
      /\ cpu' = [cpu EXCEPT !.enabled = FALSE, !.saved = TRUE,
                            !.vector = pic.offset[PicOf(line)] + BitOf(line)]
      /\ cpu.enabled /\ IsNext(pic, line)
  BY DEF Deliver
<1>3. pic' \in PicType /\ pic'.mask = pic.mask /\ pic'.offset = pic.offset
  BY <1>1, <1>2, AcknowledgeType DEF Delivered, Chip, IRQ_SLAVE
<1>4. main.at = "ready"
  BY <1>2 DEF Order
<1>5. pic.offset[PicOf(line)] + BitOf(line) = VectorOf(line)
  BY <1>1, <1>4, SameBit DEF Offsets, VectorOf, T_IRQ0
<1>6. VectorOf(line) \in Vectors /\ VectorOf(line) \in -1 .. 239
  <2>1. VectorOf(line) \in Vectors
    BY VectorsInRange
  <2>2. VectorOf(line) \in 0 .. 239
    BY <2>1, VectorsInRange
  <2> QED
    BY <2>1, <2>2
<1>7. cpu' \in CpuType /\ cpu'.vector = VectorOf(line) /\ cpu'.panic = cpu.panic
  BY <1>2, <1>5, <1>6 DEF CpuType
<1>8. Handled(VectorOf(line))
  BY <1>2, <1>4, NextIsEnabled DEF Registered
<1>9. Order' /\ Going' /\ EveryInterruptHasHandler'
  BY <1>2, <1>4, <1>6, <1>7, <1>8 DEF Order, Going, EveryInterruptHasHandler, Handled
<1> QED
  BY <1>2, <1>3, <1>7, <1>9, MasksStay

LEMMA TrapKeeps ==
  ASSUME IInv, NEW vector \in Traps, Trap(vector)
  PROVE  IInv'
<1> USE DEF IInv, TypeInv
<1>1. vector \in Vectors /\ vector \in -1 .. 239
  BY VectorsInRange DEF Vectors
<1>2. /\ UNCHANGED <<pic, table, main, asked>> /\ main.at = "ready" /\ table.handlers[vector]
      /\ cpu' = [cpu EXCEPT !.enabled = FALSE, !.saved = cpu.enabled, !.vector = vector]
  BY DEF Trap, Runs
<1>3. cpu' \in CpuType /\ cpu'.vector = vector /\ cpu'.panic = cpu.panic
  BY <1>1, <1>2 DEF CpuType
<1>4. Handled(vector)
  BY <1>1, <1>2 DEF Tables, Handled
<1>5. Order' /\ Going' /\ EveryInterruptHasHandler'
  BY <1>1, <1>2, <1>3, <1>4 DEF Order, Going, EveryInterruptHasHandler, Handled
<1> QED
  BY <1>2, <1>3, <1>5, MasksStay

LEMMA DismissType ==
  ASSUME NEW p \in PicType, NEW irq
  PROVE  /\ pic_irq_dismiss(p, irq) \in PicType
         /\ pic_irq_dismiss(p, irq).mask = p.mask /\ pic_irq_dismiss(p, irq).offset = p.offset
<1>1. ASSUME NEW q \in PicType, NEW chip \in Chip
      PROVE  Eoi(q, chip) \in PicType /\ Eoi(q, chip).mask = q.mask /\ Eoi(q, chip).offset = q.offset
  <2> DEFINE rest == {b \in q.service[chip] : \E c \in q.service[chip] : c < b}
  <2>1. rest \in SUBSET (0 .. 7)
    BY DEF PicType
  <2>2. Eoi(q, chip) = [q EXCEPT !.service = [q.service EXCEPT ![chip] = rest]]
    BY DEF Eoi, PicType
  <2> HIDE DEF rest
  <2> QED
    BY <2>1, <2>2 DEF PicType
<1> QED
  BY <1>1 DEF pic_irq_dismiss, Chip

\* The interrupt that is handled has an entry and a handler, so nothing panics.
LEMMA IsrKeeps ==
  ASSUME IInv, Isr
  PROVE  IInv' /\ pic'.mask = pic.mask /\ UNCHANGED <<main, asked>>
<1> USE DEF IInv, TypeInv
<1>1. cpu.vector \in Vectors /\ Handled(cpu.vector) /\ UNCHANGED <<table, main, asked>>
  BY DEF Isr, Going
<1>2. table.idt[cpu.vector] \in {"direct", "dispatch"} /\ Entry(cpu.vector) = table.idt[cpu.vector]
  BY <1>1 DEF TableType, Handled, Entry
<1>3. cpu.vector \in 0 .. 239
  BY <1>1, VectorsInRange
<1>4. Iret /\ (pic' = pic \/ \E irq : pic' = pic_irq_dismiss(pic, irq))
  <2>1. CASE Entry(cpu.vector) = "direct"
    BY <2>1 DEF Isr
  <2>2. CASE Entry(cpu.vector) = "dispatch"
    BY <1>1, <1>3, <2>2 DEF Isr, interrupts_irq_handler, Handled, IRQ_MAX
  <2> QED
    BY <1>2, <2>1, <2>2
<1>5. pic' \in PicType /\ pic'.mask = pic.mask /\ pic'.offset = pic.offset
  BY <1>4, DismissType
<1>6. cpu' \in CpuType /\ cpu'.vector = None /\ cpu'.panic = cpu.panic
      /\ cpu'.enabled = cpu.saved /\ cpu'.saved = cpu.saved
  <2>1. None \in -1 .. 239
    BY DEF None
  <2> QED
    BY <1>4, <2>1 DEF Iret, CpuType
<1>7. Order' /\ Going' /\ EveryInterruptHasHandler'
  BY <1>1, <1>6 DEF Order, Going, EveryInterruptHasHandler
<1> QED
  BY <1>1, <1>5, <1>6, <1>7, MasksStay

LEMMA NextKeeps == IInv /\ [Next]_vars => IInv'
<1> SUFFICES ASSUME IInv, [Next]_vars PROVE IInv'
  OBVIOUS
<1>1. CASE Program
  BY <1>1, PicinitKeeps, InterruptsInitKeeps, IdeinitKeeps, FlagKeeps, StepKeeps, RegisterKeeps, LineKeeps
  DEF Program
<1>2. CASE Isr
  BY <1>2, IsrKeeps
<1>3. CASE \E line \in Devices : Raise(line) \/ Deliver(line)
  BY <1>3, RaiseKeeps, DeliverKeeps
<1>4. CASE \E vector \in Traps : Trap(vector)
  BY <1>4, TrapKeeps
<1>5. CASE UNCHANGED vars
  BY <1>5 DEF vars, IInv, TypeInv, Order, Offsets, Registered, Tables, Going,
              EveryInterruptHasHandler, Handled, pic_irq_enabled
<1> QED
  BY <1>1, <1>2, <1>3, <1>4, <1>5 DEF Next

THEOREM Invariant == Spec => []IInv
  BY InitIInv, NextKeeps, PTL DEF Spec

(***************************************************************************)
(* Everything has its type, for every set of devices and traps.            *)
(***************************************************************************)
THEOREM TypeCorrect == Spec => []PicTypeOK
<1>1. IInv => PicTypeOK
  BY TypeInvSuffices DEF IInv
<1> QED
  BY <1>1, Invariant, PTL

(***************************************************************************)
(* The kernel never panics for want of an entry or a handler, whatever     *)
(* interrupts the boot and the registrations (interrupts.c:55-114).        *)
(***************************************************************************)
THEOREM NeverUnhandled == Spec => []EveryInterruptHasHandler
<1>1. IInv => EveryInterruptHasHandler
  BY DEF IInv
<1> QED
  BY <1>1, Invariant, PTL

-------------------------------------------------------------------------------
(* The masks *)

\* Before picinit nothing has been asked for, and no line before ideinit.
MasksInv ==
  /\ main.at # "ready" /\ main.at # "interrupts_enable" => asked = {}
  /\ MasksAsAsked

LEMMA MasksKept ==
  ASSUME IInv, MasksInv, [Next]_vars, "disable" \notin Careless
  PROVE  MasksInv'
<1> USE DEF IInv, TypeInv
<1>1. Devices \subseteq 0 .. 15
  BY VectorsInRange
<1>2. CASE Picinit
  <2>1. asked' = {} /\ main'.at = "interrupts_init" /\ pic' = picinit(pic)
    BY <1>2 DEF Picinit, Runs, MasksInv, MainType
  <2> QED
    BY <2>1, PicinitMasks DEF MasksInv, MasksAsAsked
<1>3. CASE interrupts_irq_register
  <2> DEFINE vector == main.call.vector
  <2>1. main.call \in Calls /\ vector \in Vectors /\ main'.at = main.at
        /\ main.at \in {"interrupts_enable", "ready"}
    BY <1>3 DEF interrupts_irq_register, MainType, Calls, Order
  <2>2. CASE main.call.step \in {"gate", "handler"}
    BY <1>3, <2>1, <2>2 DEF interrupts_irq_register, Step, MasksInv, MasksAsAsked
  <2>3. CASE main.call.step = "enable"
    <3>1. /\ pic' = EnableIfPic(pic, vector)
          /\ asked' = IF vector \notin Traps THEN asked \cup {vector - T_IRQ0} ELSE asked
      BY <1>3, <2>3 DEF interrupts_irq_register, Step
    <3>2. \A line \in Devices : line \in asked' <=> line \in asked \/ vector = VectorOf(line)
      <4>1. CASE vector \in Traps
        <5>1. ~IsPicVector(vector)
          BY <2>1, <4>1, VectorsInRange
        <5> QED
          BY <3>1, <4>1, <5>1, VectorsInRange
      <4>2. CASE vector \notin Traps
        <5>1. vector \in 0 .. 239
          BY <2>1, VectorsInRange
        <5> QED
          BY <1>1, <3>1, <4>2, <5>1 DEF VectorOf, T_IRQ0
      <4> QED
        BY <4>1, <4>2
    <3>3. \A line \in Devices :
            pic_irq_enabled(pic', line) <=> pic_irq_enabled(pic, line) \/ vector = VectorOf(line)
      BY <2>1, <3>1, EnableIfPicOne
    <3> QED
      BY <2>1, <3>2, <3>3 DEF MasksInv, MasksAsAsked
  <2> QED
    BY <2>1, <2>2, <2>3 DEF Calls
<1>4. ASSUME NEW line \in Devices, NEW irq \in {line, VectorOf(line)}, EnableLine(irq)
      PROVE  MasksInv'
  <2>1. /\ pic' = pic_irq_enable(pic, irq) /\ UNCHANGED main /\ main.at = "ready"
        /\ asked' = asked \cup {line}
    BY <1>1, <1>4, SameBit DEF EnableLine, Runs
  <2> QED
    BY <1>1, <2>1, EnableOne DEF MasksInv, MasksAsAsked
<1>5. ASSUME NEW line \in Devices, NEW irq \in {line, VectorOf(line)}, DisableLine(irq)
      PROVE  MasksInv'
  <2>1. /\ pic' = pic_irq_disable(pic, irq) /\ UNCHANGED main /\ main.at = "ready"
        /\ asked' = asked \ {line} /\ pic_irq_enabled(pic, irq)
    BY <1>1, <1>5, SameBit DEF DisableLine, Runs
  <2>2. pic_irq_enabled(pic, line)
    BY <1>1, <2>1, BitInRange DEF pic_irq_enabled
  <2> QED
    BY <1>1, <2>1, <2>2, DisableOne DEF MasksInv, MasksAsAsked
<1>6. CASE UNCHANGED <<pic, asked>> /\ main.at # "picinit"
           /\ (main'.at \in {"ready", "interrupts_enable"} \/ main.at = "interrupts_init")
  BY <1>6 DEF MasksInv, MasksAsAsked
<1>7. CASE pic'.mask = pic.mask /\ UNCHANGED <<main, asked>>
  BY <1>7 DEF MasksInv, MasksAsAsked, pic_irq_enabled
<1>8. CASE interrupts_init \/ ideinit \/ interrupts_enable \/ interrupts_disable
           \/ \E vector \in Vectors, entry \in {"direct", "dispatch"} : Register(vector, entry)
  <2>1. UNCHANGED <<pic, asked>>
    BY <1>8 DEF interrupts_init, ideinit, interrupts_enable, interrupts_disable, Register
  <2>2. main.at # "picinit"
    BY <1>8 DEF interrupts_init, ideinit, interrupts_enable, interrupts_disable, Register, Runs
  <2>3. main'.at \in {"ready", "interrupts_enable"} \/ main.at = "interrupts_init"
    BY <1>8 DEF interrupts_init, ideinit, interrupts_enable, interrupts_disable, Register, Runs, MainType
  <2> QED
    BY <1>6, <2>1, <2>2, <2>3
<1>9. CASE Program
  BY <1>2, <1>3, <1>4, <1>5, <1>8, <1>9 DEF Program
<1>10. CASE Isr \/ \E line \in Devices : Raise(line) \/ Deliver(line)
  BY <1>7, <1>10, IsrKeeps, RaiseKeeps, DeliverKeeps
<1>11. CASE UNCHANGED vars \/ \E vector \in Traps : Trap(vector)
  BY <1>7, <1>11 DEF vars, Trap
<1> QED
  BY <1>9, <1>10, <1>11 DEF Next

(***************************************************************************)
(* A program that disables only what is enabled finds in the mask          *)
(* registers what it asked for, line by line (interrupts.c:122-180).       *)
(***************************************************************************)
THEOREM MasksCorrect ==
  ASSUME "disable" \notin Careless
  PROVE  Spec => []MasksAsAsked
<1>1. Init => MasksInv
  BY DEF Init, MasksInv, MasksAsAsked
<1>2. IInv /\ MasksInv /\ [Next]_vars => MasksInv'
  BY MasksKept
<1>3. MasksInv => MasksAsAsked
  BY DEF MasksInv
<1> QED
  BY <1>1, <1>2, <1>3, Invariant, PTL DEF Spec

===============================================================================
