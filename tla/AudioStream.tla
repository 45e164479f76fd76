------------------------------ MODULE AudioStream ------------------------------
(***************************************************************************)
(* What two chunks of sound promise: the blocks a game writes are heard in *)
(* the order of writing, every part of each once, and none is overwritten  *)
(* before it has been heard.                                               *)
(***************************************************************************)
EXTENDS Integers

CONSTANT Units     \* parts of a block

VARIABLES
  written,         \* blocks written
  heard,           \* parts heard
  sound            \* the block of what was heard last

Init == written = 0 /\ heard = 0 /\ sound = 0

\* A third block waits until the first is heard.
Write ==
  /\ (written - 1) * Units <= heard
  /\ written' = written + 1 /\ UNCHANGED <<heard, sound>>

\* What is heard next is a part of the block it is the next part of.
Hear ==
  /\ heard' = heard + 1 /\ UNCHANGED written
  /\ sound' <= written
  /\ (sound' - 1) * Units <= heard /\ heard < sound' * Units

Next == Write \/ Hear

Spec == Init /\ [][Next]_<<written, heard, sound>>
===============================================================================
