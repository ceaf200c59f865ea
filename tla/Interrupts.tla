------------------------------- MODULE Interrupts -------------------------------
(***************************************************************************)
(* Interrupt set-up and dispatch of src/A.ide: picirq.c programs the two   *)
(* 8259A controllers, interrupts.c keeps the descriptor table, the table   *)
(* of handlers and the mask registers, main.c puts them to use, and an     *)
(* interrupt may come between any two steps of it.                         *)
(*                                                                         *)
(* A line is an interrupt number 0..15 of the controllers, a vector is     *)
(* what the processor is given.  The entry of a vector is "direct" if it   *)
(* calls the handler itself, as isr_entry_ide does, and "dispatch" if it   *)
(* goes through interrupts_irq_handler, which dismisses the interrupt.     *)
(***************************************************************************)
EXTENDS Integers, FiniteSets

CONSTANTS
  Devices,     \* the lines with a device
  Traps,       \* the other vectors the program registers: faults and system calls
  AutoEoi,     \* the sets of controllers whose automatic EOI may work
  Careless     \* "disable": lines are disabled that are not enabled;
               \* "dismiss": interrupts come that neither entry nor controller dismisses

ASSUME InterruptsAssumption ==
  /\ Devices \subseteq (0 .. 15) \ {2} /\ 14 \in Devices
  /\ Traps \subseteq (0 .. 31) \cup (48 .. 239)
  /\ Careless \subseteq {"disable", "dismiss"}

VARIABLES
  pic,    \* the controllers: masks, requests, in service, vector offsets
  table,  \* idt and irq_handlers
  cpu,    \* interrupt flag, the vector being handled, the flag to return to, panic
  main,   \* the next step of main(), and of the call it makes
  asked   \* the lines the program has asked to be enabled

vars == <<pic, table, cpu, main, asked>>

PIC1 == "PIC1"
PIC2 == "PIC2"
IRQ_SLAVE == 2
T_IRQ0 == 32
IRQ_IDE == 46
IRQ_MAX == 240

None == -1
NoCall == [vector |-> None, entry |-> "none", step |-> "none"]

VectorOf(line) == T_IRQ0 + line
Vectors == {VectorOf(line) : line \in Devices} \cup Traps

------------------------------------------------------------------------------
(* The mask registers. *)

\* A slip: the number of a line of the second controller is not adjusted.
BitOf_Unadjusted(irq) == irq % 16

\* The controller and the bit of an interrupt number; numbers of vectors are remapped.
PicOf(irq) == IF irq % 16 >= 8 THEN PIC2 ELSE PIC1
BitOf(irq) == IF irq % 16 >= 8 THEN (irq % 16) - 8 ELSE irq % 16

pic_irq_enabled(p, irq) == BitOf(irq) \notin p.mask[PicOf(irq)]

pic_irq_enable(p, irq) == [p EXCEPT !.mask[PicOf(irq)] = @ \ {BitOf(irq)}]

\* The bit is flipped, not set.
pic_irq_disable(p, irq) ==
  [p EXCEPT !.mask[PicOf(irq)] =
     IF BitOf(irq) \in @ THEN @ \ {BitOf(irq)} ELSE @ \cup {BitOf(irq)}]

\* A non-specific EOI ends the most important interrupt in service.
Eoi(p, chip) ==
  [p EXCEPT !.service[chip] = {b \in @ : \E c \in @ : c < b}]

\* A slip: the first controller alone is told.
pic_irq_dismiss_MasterOnly(p, irq) == Eoi(p, PIC1)

pic_irq_dismiss(p, irq) ==
  IF irq % 16 >= 8 THEN Eoi(Eoi(p, PIC2), PIC1) ELSE Eoi(p, PIC1)

\* Setting a controller up forgets what was requested and in service.
SetUp(p, chip, offset) ==
  [p EXCEPT !.offset[chip] = offset, !.request[chip] = {}, !.service[chip] = {}]

irqmask == [chip \in {PIC1, PIC2} |-> IF chip = PIC1 THEN (0 .. 7) \ {IRQ_SLAVE} ELSE 0 .. 7]

picsetmask(p, mask) == [p EXCEPT !.mask = mask]

picinit(p) == picsetmask(SetUp(SetUp(p, PIC1, T_IRQ0), PIC2, T_IRQ0 + 8), irqmask)

------------------------------------------------------------------------------
(* The controllers, as the code uses them. *)

Bits(p, chip) ==
  {b \in p.request[chip] \ p.mask[chip] : \A c \in p.service[chip] : b < c}

\* What the master would deliver: its own requests, and the slave's on IRQ_SLAVE.
MasterBits(p) ==
  LET cascaded == IF Bits(p, PIC2) # {} THEN {IRQ_SLAVE} ELSE {}
  IN  Bits([p EXCEPT !.request[PIC1] = @ \cup cascaded], PIC1)

Least(b, S) == b \in S /\ \A c \in S : b <= c

\* The line the controllers deliver next.
IsNext(p, line) ==
  /\ Least(IF line >= 8 THEN IRQ_SLAVE ELSE line, MasterBits(p))
  /\ line >= 8 => Least(line - 8, Bits(p, PIC2))

Acknowledge(p, chip, bit) ==
  [p EXCEPT !.request[chip] = @ \ {bit},
            !.service[chip] = IF chip \in p.aeoi THEN @ ELSE @ \cup {bit}]

Delivered(p, line) ==
  LET served == Acknowledge(p, PicOf(line), BitOf(line))
  IN  IF line >= 8 THEN Acknowledge(served, PIC1, IRQ_SLAVE) ELSE served

------------------------------------------------------------------------------
(* The BIOS leaves the controllers with other vectors and unknown masks.   *)
Init ==
  /\ \E aeoi \in AutoEoi, masks \in {{}, 0 .. 7} :
       pic = [mask    |-> [chip \in {PIC1, PIC2} |-> masks],
              request |-> [chip \in {PIC1, PIC2} |-> {}],
              service |-> [chip \in {PIC1, PIC2} |-> {}],
              offset  |-> [chip \in {PIC1, PIC2} |-> IF chip = PIC1 THEN 8 ELSE 112],
              aeoi    |-> aeoi]
  /\ table = [idt |-> [v \in Vectors |-> "none"], handlers |-> [v \in Vectors |-> FALSE]]
  /\ cpu = [enabled |-> FALSE, vector |-> None, saved |-> FALSE, panic |-> FALSE]
  /\ main = [at |-> "picinit", call |-> NoCall]
  /\ asked = {}

\* The program goes on unless an interrupt is being handled or the kernel has panicked.
Runs(at) == cpu.vector = None /\ ~cpu.panic /\ main.call = NoCall /\ main.at = at

Picinit ==
  /\ Runs("picinit")
  /\ pic' = picinit(pic)
  /\ main' = [main EXCEPT !.at = "interrupts_init"]
  /\ UNCHANGED <<table, cpu, asked>>

interrupts_init ==
  /\ Runs("interrupts_init")
  /\ table' = [table EXCEPT !.handlers = [v \in Vectors |-> FALSE]]
  /\ main' = [main EXCEPT !.at = "ideinit"]
  /\ UNCHANGED <<pic, cpu, asked>>

Calling(vector, entry) == [vector |-> vector, entry |-> entry, step |-> "gate"]

ideinit ==
  /\ Runs("ideinit")
  /\ main' = [at |-> "interrupts_enable", call |-> Calling(IRQ_IDE, "direct")]
  /\ UNCHANGED <<pic, table, cpu, asked>>

\* The boot's sti, and any other.
interrupts_enable ==
  /\ Runs("interrupts_enable") \/ Runs("ready")
  /\ ~cpu.enabled
  /\ cpu' = [cpu EXCEPT !.enabled = TRUE]
  /\ main' = [main EXCEPT !.at = "ready"]
  /\ UNCHANGED <<pic, table, asked>>

interrupts_disable ==
  /\ Runs("ready")
  /\ cpu.enabled
  /\ cpu' = [cpu EXCEPT !.enabled = FALSE]
  /\ UNCHANGED <<pic, table, main, asked>>

------------------------------------------------------------------------------
(* interrupts_irq_register: an interrupt may come between its assignments. *)

\* An interrupt ends by itself, or its entry dismisses it.
Dismissed(line, entry) ==
  "dismiss" \in Careless \/ PicOf(line) \in pic.aeoi \/ entry = "dispatch"

Register(vector, entry) ==
  /\ Runs("ready")
  /\ vector \in Traps \/ Dismissed(vector - T_IRQ0, entry)
  /\ IF vector < 0 \/ vector >= IRQ_MAX
     THEN cpu' = [cpu EXCEPT !.panic = TRUE] /\ UNCHANGED main
     ELSE main' = [main EXCEPT !.call = Calling(vector, entry)] /\ UNCHANGED cpu
  /\ UNCHANGED <<pic, table, asked>>

FillGate(t, call) == [t EXCEPT !.idt[call.vector] = call.entry]
AddHandler(t, call) == [t EXCEPT !.handlers[call.vector] = TRUE]

\* A slip: the check that a vector is of the controllers is left out.
IsPicVector_Any(vector) == vector >= 0

IsPicVector(vector) == vector >= T_IRQ0 /\ vector <= 47

EnableIfPic(p, vector) == IF IsPicVector(vector) THEN pic_irq_enable(p, vector) ELSE p

\* A slip: the line is enabled before its entry and handler are there.
Step_EnableFirst(step) ==
  CASE step = "gate"    -> [table |-> table, pic |-> EnableIfPic(pic, main.call.vector), next |-> "handler"]
    [] step = "handler" -> [table |-> AddHandler(table, main.call), pic |-> pic, next |-> "enable"]
    [] step = "enable"  -> [table |-> FillGate(table, main.call), pic |-> pic, next |-> "none"]

\* What each step of a registration does to the tables and the controllers.
Step(step) ==
  CASE step = "gate"    -> [table |-> FillGate(table, main.call), pic |-> pic, next |-> "handler"]
    [] step = "handler" -> [table |-> AddHandler(table, main.call), pic |-> pic, next |-> "enable"]
    [] step = "enable"  -> [table |-> table, pic |-> EnableIfPic(pic, main.call.vector), next |-> "none"]

interrupts_irq_register ==
  /\ cpu.vector = None /\ ~cpu.panic /\ main.call # NoCall
  /\ LET now == Step(main.call.step)
     IN  /\ table' = now.table
         /\ pic' = now.pic
         /\ main' = [main EXCEPT !.call = IF now.next = "none" THEN NoCall
                                          ELSE [@ EXCEPT !.step = now.next]]
         /\ asked' = IF now.next = "none" /\ main.call.vector \notin Traps
                     THEN asked \cup {main.call.vector - T_IRQ0} ELSE asked
  /\ UNCHANGED cpu

\* The program enables a line it has registered, by its vector or by its number.
EnableLine(irq) ==
  /\ Runs("ready")
  /\ table.handlers[VectorOf(irq % 16)]
  /\ pic' = pic_irq_enable(pic, irq)
  /\ asked' = asked \cup {irq % 16}
  /\ UNCHANGED <<table, cpu, main>>

DisableLine(irq) ==
  /\ Runs("ready")
  /\ table.handlers[VectorOf(irq % 16)]
  /\ "disable" \in Careless \/ pic_irq_enabled(pic, irq)
  /\ pic' = pic_irq_disable(pic, irq)
  /\ asked' = asked \ {irq % 16}
  /\ UNCHANGED <<table, cpu, main>>

------------------------------------------------------------------------------
(* An interrupt: the device, the delivery, the handler. *)

Raise(line) ==
  /\ BitOf(line) \notin pic.request[PicOf(line)]
  /\ Dismissed(line, table.idt[VectorOf(line)])
  /\ ~cpu.panic
  /\ pic' = [pic EXCEPT !.request[PicOf(line)] = @ \cup {BitOf(line)}]
  /\ UNCHANGED <<table, cpu, main, asked>>

Deliver(line) ==
  /\ cpu.enabled /\ cpu.vector = None /\ ~cpu.panic
  /\ IsNext(pic, line)
  /\ pic' = Delivered(pic, line)
  /\ cpu' = [cpu EXCEPT !.enabled = FALSE, !.saved = TRUE,
                        !.vector = pic.offset[PicOf(line)] + BitOf(line)]
  /\ UNCHANGED <<table, main, asked>>

\* A fault, or an INT instruction, of the program between its calls.
Trap(vector) ==
  /\ Runs("ready") /\ table.handlers[vector]
  /\ cpu' = [cpu EXCEPT !.enabled = FALSE, !.saved = cpu.enabled, !.vector = vector]
  /\ UNCHANGED <<pic, table, main, asked>>

Panic == cpu' = [cpu EXCEPT !.panic = TRUE] /\ UNCHANGED pic

\* popa and iret: the interrupted program goes on, with its interrupt flag.
Iret == cpu' = [cpu EXCEPT !.enabled = cpu.saved, !.vector = None]

interrupts_irq_handler(irq) ==
  IF irq < 0 \/ irq >= IRQ_MAX \/ ~table.handlers[irq]
  THEN Panic
  ELSE /\ pic' = IF IsPicVector(irq) THEN pic_irq_dismiss(pic, irq - T_IRQ0) ELSE pic
       /\ Iret

Entry(vector) == IF vector \in Vectors THEN table.idt[vector] ELSE "none"

\* The vector's entry; a vector without one is a fault nobody handles.
Isr ==
  /\ cpu.vector # None /\ ~cpu.panic
  /\ CASE Entry(cpu.vector) = "none"     -> Panic
       [] Entry(cpu.vector) = "direct"   -> Iret /\ UNCHANGED pic
       [] Entry(cpu.vector) = "dispatch" -> interrupts_irq_handler(cpu.vector)
  /\ UNCHANGED <<table, main, asked>>

Program ==
  \/ Picinit \/ interrupts_init \/ ideinit \/ interrupts_enable \/ interrupts_irq_register
  \/ \E vector \in Vectors, entry \in {"direct", "dispatch"} : Register(vector, entry)
  \/ \E line \in Devices : \E irq \in {line, VectorOf(line)} : EnableLine(irq) \/ DisableLine(irq)
  \/ interrupts_disable

Next ==
  \/ Program
  \/ Isr
  \/ \E line \in Devices : Raise(line) \/ Deliver(line)
  \/ \E vector \in Traps : Trap(vector)

\* The processor goes on, the program does not keep interrupts disabled for ever,
\* and the controllers deliver what they can again and again.
Fairness ==
  /\ WF_vars(Isr)
  /\ WF_vars(interrupts_irq_register)
  /\ WF_vars(Picinit \/ interrupts_init \/ ideinit)
  /\ SF_vars(interrupts_enable)
  /\ \A line \in Devices : SF_vars(Deliver(line))

Spec == Init /\ [][Next]_vars /\ Fairness

------------------------------------------------------------------------------
(* Properties *)

\* Everything has its type.
PicTypeOK ==
  /\ pic \in [mask : [{PIC1, PIC2} -> SUBSET (0 .. 7)], request : [{PIC1, PIC2} -> SUBSET (0 .. 7)],
             service : [{PIC1, PIC2} -> SUBSET (0 .. 7)],
             offset : [{PIC1, PIC2} -> {8, 112, T_IRQ0, T_IRQ0 + 8}], aeoi : AutoEoi]
  /\ table \in [idt : [Vectors -> {"none", "direct", "dispatch"}], handlers : [Vectors -> BOOLEAN]]
  /\ cpu \in [enabled : BOOLEAN, vector : -1 .. 239, saved : BOOLEAN, panic : BOOLEAN]
  /\ main.call \in {NoCall} \cup
       [vector : Vectors, entry : {"direct", "dispatch"}, step : {"gate", "handler", "enable"}]
  /\ asked \subseteq Devices

\* Whatever interrupts between whatever steps of the boot and of a registration, an
\* interrupt that is delivered finds an entry in the IDT and a handler in irq_handlers.
EveryInterruptHasHandler == ~cpu.panic

\* The mask registers are what the calls asked for, line by line: a call for one
\* interrupt leaves the others alone, and after enable or disable a line is enabled
\* or disabled, as the comments of pic_irq_enable and pic_irq_disable say.
MasksAsAsked ==
  main.at # "picinit" =>
    \A line \in Devices : pic_irq_enabled(pic, line) <=> line \in asked

\* A line that is requested and not masked, once the system is up.
Waiting(line) ==
  /\ main.at = "ready"
  /\ BitOf(line) \in pic.request[PicOf(line)]
  /\ pic_irq_enabled(pic, line)

MoreImportant(line) ==
  {other \in Devices : IF (other >= 8) = (line >= 8) THEN other < line
                       ELSE IF line >= 8 THEN other < IRQ_SLAVE ELSE line > IRQ_SLAVE}

\* An interrupt that is requested and not masked is delivered unless more important ones
\* keep coming: no interrupt before it is left in service, undismissed, for ever.
RequestsAreServed ==
  \A line \in Devices :
    Waiting(line) ~> (~Waiting(line) \/ \E other \in MoreImportant(line) : Waiting(other))
=============================================================================
