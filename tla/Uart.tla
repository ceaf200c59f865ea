--------------------------------- MODULE Uart --------------------------------
(***************************************************************************)
(* The part of a 16450 UART that handlers.c of 9.serialport programs, and  *)
(* its line to the interrupt controller.  Hardware, modelled from how the  *)
(* driver uses it: one byte of room in each direction, and an interrupt    *)
(* condition per direction.  The controller is edge triggered, as a PC's   *)
(* 8259 is unless it is told otherwise: irq latches a rise of the line.    *)
(***************************************************************************)
EXTENDS Integers

NONE == 0   (* an empty register; bytes are positive numbers *)

\* enabled: interrupts on; rbr: the byte received; thr: the byte being sent;
\* thre: the transmitter reports that it is empty; irq: an edge not yet delivered.
Silent == [enabled |-> FALSE, rbr |-> NONE, thr |-> NONE, thre |-> FALSE, irq |-> FALSE]

Line(u) == u.enabled /\ (u.rbr # NONE \/ u.thre)

\* u after a change of its registers to v: a rising line is latched.
Edge(u, v) == [v EXCEPT !.irq = u.irq \/ (~Line(u) /\ Line(v))]

\* IER is written last: the empty transmitter asks for its first interrupt.
Enable(u)     == Edge(u, [u EXCEPT !.enabled = TRUE, !.rbr = NONE, !.thre = TRUE])

\* What a read of IIR answers; reporting TXRDY clears that condition.
Iir(u)        == IF u.rbr # NONE THEN "RXRDY" ELSE IF u.thre THEN "TXRDY" ELSE "NONE"
ReadIir(u)    == IF Iir(u) = "TXRDY" THEN Edge(u, [u EXCEPT !.thre = FALSE]) ELSE u

ReadData(u)   == Edge(u, [u EXCEPT !.rbr = NONE])
WriteData(u, byte) == Edge(u, [u EXCEPT !.thr = byte, !.thre = FALSE])

\* The line side: a byte comes in, over one that was not read in time, or has gone out.
Arrived(u, byte) == IF byte = NONE THEN u ELSE Edge(u, [u EXCEPT !.rbr = byte])
Sent(u)          == Edge(u, [u EXCEPT !.thr = NONE, !.thre = TRUE])
=============================================================================
