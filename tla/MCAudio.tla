------------------------------- MODULE MCAudio -------------------------------
(* Blocks of two parts: enough for each chunk to be used twice. *)
EXTENDS Audio
===============================================================================
