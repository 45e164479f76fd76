----------------------------- MODULE MCInterrupts -----------------------------
(* Interrupts with the request lines of the device headers. *)
EXTENDS Interrupts

===============================================================================
