------------------------------ MODULE IrqMailbox ------------------------------
(***************************************************************************)
(* What the interrupt controller of nemu/src/device/i8259_pic.c promises   *)
(* to the CPU, without threads, pins or sentinels: a mailbox that holds    *)
(* the highest of the lines raised since it was last emptied, and that the *)
(* CPU empties by taking what is in it.  Lines raised in between and not   *)
(* the highest are forgotten; that is part of the promise.                 *)
(***************************************************************************)
EXTENDS Integers

CONSTANTS
  Lines,     \* a set of natural numbers
  Late       \* lines that may be raised while the CPU takes a lower one

Nothing == -1

VARIABLES
  top,     \* the highest line raised since the last Take
  taken    \* the line of the last Take

Init == top = Nothing /\ taken = Nothing

Raise(irq) ==
  /\ top < irq
  /\ top' = irq
  /\ UNCHANGED taken

\* A late line is thrown away with the line it displaced, which is delivered.
Take ==
  /\ top # Nothing
  /\ \/ taken' = top
     \/ top \in Late /\ taken' \in 0 .. top - 1
  /\ top' = Nothing

Next == Take \/ \E irq \in Lines : Raise(irq)

Spec == Init /\ [][Next]_<<top, taken>>

===============================================================================
