----------------------------- MODULE MCBreakpoints -----------------------------
(* A program of four instructions: the second is a BREAK_POINT of the      *)
(* program itself, the last ends the run.                                  *)
EXTENDS Breakpoints

MCProgram == [a \in Addr |-> CASE a = 1 -> Int3 [] a = 3 -> "trap" [] OTHER -> "code"]

===============================================================================
