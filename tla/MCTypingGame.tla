----------------------------- MODULE MCTypingGame -----------------------------
(* Two letters, a screen of three positions, a new letter every second tick: *)
(* the pool has two nodes, and both are on the screen again and again.       *)
EXTENDS TypingGame

===============================================================================
