----------------------------- MODULE MCInterrupts -----------------------------
(***************************************************************************)
(* Values for the constants of Interrupts: the automatic EOI works on both *)
(* controllers, or on the master only, as picirq.c warns.                  *)
(***************************************************************************)
EXTENDS Interrupts

MCAutoEoi == {{PIC1}, {PIC1, PIC2}}
===============================================================================
