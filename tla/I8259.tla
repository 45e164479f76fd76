-------------------------------- MODULE I8259 --------------------------------
(***************************************************************************)
(* The data of the simulated interrupt controller,                         *)
(* nemu/src/device/i8259_pic.c.  The chip keeps one interrupt number; the  *)
(* value NO_INTR, larger than every vector, says that there is none.       *)
(* The interleavings of the threads that use the chip are in Interrupts.   *)
(***************************************************************************)
EXTENDS Integers

NO_INTR == 255

IRQ_BASE == 32

IrqLines == 0 .. 15

Vector(irq) == irq + IRQ_BASE

Slots == {NO_INTR} \cup {Vector(irq) : irq \in IrqLines}

\* Mutant: the last line wins.
Latch_LastWins(slot, irq) == Vector(irq)

\* What i8259_raise_intr stores: the new vector when the slot is free or the
\* new line has the larger number, the old content otherwise.
Latch(slot, irq) ==
  IF slot = NO_INTR \/ irq > slot - IRQ_BASE THEN Vector(irq) ELSE slot

==============================================================================
